---- MODULE Spec2Model ----
(***************************************************************************)
(* Model of the motion-canvas capture pipeline and stream relay.           *)
(*                                                                         *)
(*  - raspberry/main.py        AIArtCapture: the capture decision engine   *)
(*  - raspberry/utils/pir_sensor.py  PIRSensor: the PIR interrupt adapter  *)
(*  - server/services/stream_relay.py  StreamRelay                         *)
(*  - server/routers/stream.py  the WebSocket ingress / MJPEG egress       *)
(*                                                                         *)
(* The specifications that share the module:                               *)
(*   EngineSpec  the Pi run loop, one action per step of _process_frame,   *)
(*               interleaved with the PIR interrupt thread and the clock;  *)
(*   RelaySpec   StreamRelay's public methods called in any order with     *)
(*               any argument;                                             *)
(*   ServerSpec  the relay driven only by the router's handlers, which     *)
(*               interleave at their await points (one asyncio loop).      *)
(*   LockSpec    StreamRelay's methods called by threads, one action per   *)
(*               entry, body and exit of a `with self._lock:` block.       *)
(*   DetectorSpec  detect() of the two person detectors, frame after frame.*)
(*   StartupSpec   initialize(), then the choice of the detector in each   *)
(*               tick, then cleanup().                                     *)
(*   BufferSpec  RelaySpec for a relay built with a short history.         *)
(*   CameraSpec  PiCameraSource's capture() and get_latest_frame() called  *)
(*               by two threads.                                           *)
(*   PusherSpec  the WebSocket pushers of the Pis against the ingress      *)
(*               handler of the server.                                    *)
(*   MainSpec    main() of the Pi process: run loop, stop(), signals,      *)
(*               cleanup().                                                *)
(*   BoxSpec     the geometry of the box a detector returns.               *)
(***************************************************************************)
EXTENDS Integers, Sequences, FiniteSets, TLC

(***************************************************************************)
(* Bounds of the model                                                     *)
(***************************************************************************)
\* time.time() at start-up, in seconds, relative to an origin of the model;
\* the real value is the Unix epoch time, far larger than any cooldown.
Epoch == 6
\* number of seconds of behaviour explored after start-up
Horizon == 5
MaxTime == Epoch + Horizon
\* number of push_frame calls made on the relay's interface (RelaySpec)
MaxPushes == 11
\* number of frames the ingress handlers receive (ServerSpec)
MaxReceived == 3
\* number of push_frame calls made by the threads of LockSpec
MaxLockedPushes == 2
\* number of rectangles detectMultiScale returns for one frame
MaxRects == 2
\* max_frames of a relay built with a short history (BufferSpec)
SmallMaxFrames == 2
\* number of frames the camera driver delivers (CameraSpec)
MaxCaptures == 3
\* number of ticks the run loop of main() starts (MainSpec)
MaxTicks == 3
\* size of the frame in pixels (BoxSpec)
FrameWidth == 10
FrameHeight == 5
\* a landmark coordinate is a multiple of 1/LandmarkSteps (BoxSpec)
LandmarkSteps == 4
MaxSignals == 2
\* number of cells of a frame array; a copy is made cell by cell
FrameCells == 2

(***************************************************************************)
(* Program constants                                                       *)
(***************************************************************************)
DefaultCaptureInterval == 2
DefaultCooldownSeconds == 5
DefaultCountdownSeconds == 3
PirCooldownTime == 2
ExceptionPause == 1
RgbFallbackCount == 3
QueueMaxSize == 10
DefaultMaxFrames == 30
CloseInvalidSecret == 4001
CloseAnotherSource == 4002
\* confidences are in hundredths
DefaultMinConfidence == 50
DummyConfidence == 95
HogDefaultConfidence == 50
FullConfidence == 100
MinVisibleLandmarks == 5
ReconnectDelay == 5

None == "None"
\* `None` where a frame is expected; the frames are numbered from 1
NoFrame == 0

VARIABLES
  \* ---- configuration and start-up outcome (raspberry/config.py, initialize)
  cfg,                  \* detection_config / pir_config / led_config values
  pir_sensor,           \* self.pir_sensor is not None after initialize()
  running,              \* self._running
  \* ---- AIArtCapture state
  last_capture_time,    \* self._last_capture_time
  pir_motion_detected,  \* self._pir_motion_detected
  pc,                   \* position of the run loop / _process_frame
  pir_triggered,        \* local pir_triggered of _process_frame
  frame,                \* local frame: 0 = None, 1 = preview, 2 = final
  detections,           \* local detections: number of boxes returned
  countdown_left,       \* remaining iterations of the countdown loop
  processed,            \* local processed: the frame handed to encode_jpeg
  image_bytes,          \* local image_bytes: TRUE = bytes, FALSE = None
  \* ---- PIRSensor state and the interrupt thread
  sensor_motion_detected,     \* PIRSensor._motion_detected
  sensor_last_detection_time, \* PIRSensor._last_detection_time
  irq_pc,                     \* position of the GPIO callback thread
  \* ---- the clock
  now,                  \* time.time()
  \* ---- history of the current tick (observation only)
  tick,                 \* record, see NewTick
  edge_since_check,     \* an accepted PIR edge reached the engine since the
                        \* last read of the flag by the run loop
  prev_capture_time     \* the value last_capture_time had before its last
                        \* assignment (0 while there was none)

engineVars == <<cfg, pir_sensor, running, last_capture_time,
                pir_motion_detected, pc,
                pir_triggered, frame, detections, countdown_left,
                processed, image_bytes, sensor_motion_detected,
                sensor_last_detection_time, irq_pc, now, tick,
                edge_since_check, prev_capture_time>>

VARIABLES
  \* ---- StreamRelay state (server/services/stream_relay.py)
  connected_source,     \* self._connected_source
  source_id,            \* self._source_id
  latest_frame,         \* self._latest_frame
  frame_timestamp,      \* self._frame_timestamp (0, or the stamp of a push)
  frame_buffer,         \* self._frame_buffer, a deque(maxlen=max_frames)
  max_frames,           \* the max_frames the relay was built with
  clients,              \* self._clients, the set of subscribed queues
  queue,                \* the content of each asyncio.Queue(maxsize=10)
  \* ---- the router's handlers (server/routers/stream.py)
  ing,                  \* each WebSocket ingress handler: position, close code
  egr,                  \* each MJPEG egress handler: position; "closed":
                        \* no request, or the consumer went away; "ended":
                        \* the generator left its loop by the break
  \* ---- observation only
  pushed,               \* number of push_frame calls so far; the n-th call
                        \* pushes the frame n
  call,                 \* the last call of a relay method: op, arg, ret
  received              \* last frame each queue's reader took out of it

VARIABLES
  \* ---- the relay's lock and the threads calling the relay (LockSpec)
  lock,                 \* the holder of self._lock, None when it is free
  thr                   \* each calling thread: position, method, arguments

relayVars == <<connected_source, source_id, latest_frame, frame_timestamp,
               frame_buffer, clients, queue>>
handlerVars == <<ing, egr>>
observedVars == <<pushed, call, received>>
\* set by __init__, never assigned afterwards
builtVars == <<max_frames>>
serverVars == <<relayVars, handlerVars, observedVars, builtVars>>
lockVars == <<lock, thr>>

VARIABLES
  \* ---- one call of the active detector's detect() (DetectorSpec)
  det_in,               \* the detector, its threshold and what its backend
                        \* does for the frame, see DetectInputs
  det_out,              \* the list detect() returned
  det_pc                \* "off", "call" (detect is about to run), "returned"

VARIABLES
  \* ---- initialize() and the detector it selects (StartupSpec)
  start_in,             \* configuration and outcome of each start-up step,
                        \* see StartInputs
  app,                  \* which attributes of AIArtCapture are set, see NewApp
  start_pc,             \* "off", "new", "run", "failed", "cleaned"
  called                \* the attribute whose detect() the last tick called

VARIABLES
  \* ---- PiCameraSource and the threads calling it (CameraSpec)
  cam_running,          \* self._is_running
  cam_latest,           \* self._latest_frame, an array or NoArray
  frame_lock,           \* the holder of self._frame_lock, None when free
  cam,                  \* each calling thread: position, method, locals
  cam_count,            \* number of frames the driver has delivered; the
                        \* n-th frame has n in every cell
  cam_stored            \* observation: the frame of the last store, 0 = none

VARIABLES
  \* ---- WebSocketStreamPusher, one per Pi (PusherSpec)
  pusher                \* each pusher: position of its thread, _running,
                        \* _connected, see PusherNew

VARIABLES
  \* ---- main() of the Pi process (MainSpec)
  main                  \* position of the main thread in main(), _running,
                        \* and what was observed of it, see MainNew

detVars == <<det_in, det_out, det_pc>>
mainVars == <<main>>
pusherVars == <<pusher>>
startVars == <<start_in, app, start_pc, called>>
camVars == <<cam_running, cam_latest, frame_lock, cam, cam_count, cam_stored>>
\* the variables of the specifications of single components
pureVars == <<detVars, startVars, camVars, pusherVars, mainVars>>

vars == <<engineVars, serverVars, lockVars, pureVars>>

(***************************************************************************)
(* Configuration: the values the environment can give (config.py reads     *)
(* them from environment variables once, at import)                        *)
(***************************************************************************)
CooldownValues == {0, DefaultCooldownSeconds}
CountdownValues == {0, DefaultCountdownSeconds}
LedModes == {"rgb", "single", "none"}

Configs ==
  [ detection_enabled : BOOLEAN,
    cooldown_seconds : CooldownValues,
    countdown_seconds : CountdownValues,
    use_full_frame : BOOLEAN,
    pir_enabled : BOOLEAN,
    require_pir_for_capture : BOOLEAN,
    led : LedModes ]

(***************************************************************************)
(* The capture decision engine (raspberry/main.py)                         *)
(***************************************************************************)
\* what one call of _process_frame did
NewTick(lct) ==
  [ start_lct |-> lct,       \* last_capture_time when the tick began
    edge |-> FALSE,          \* edge_since_check at the read of the flag
    gathered |-> FALSE,      \* the tick read the PIR flag
    captures |-> 0,          \* calls of camera.capture()
    detects |-> 0,           \* calls of detect()
    countdown_steps |-> 0,   \* iterations of the countdown loop
    encodes |-> 0,           \* calls of encode_jpeg()
    uploads |-> 0,           \* calls of api_client.upload_image()
    response |-> None,       \* "success" / "failure" of the upload call
    uploaded |-> 0,          \* the frame whose bytes were uploaded
    raised |-> FALSE,        \* an exception left _process_frame
    small_bbox |-> FALSE,    \* line 274 found the area ratio below the minimum
    prev |-> None ]          \* how the previous tick ended, when it ended
                             \* with "raised" or with an upload "failure"

EngineInit ==
  /\ cfg \in Configs
  \* initialize(): self.pir_sensor is set only if pir_config.enabled and
  \* PIRSensor.initialize() returned True
  /\ pir_sensor \in {b \in BOOLEAN : b => cfg.pir_enabled}
  \* run(), line 314
  /\ running = TRUE
  /\ last_capture_time = 0
  /\ pir_motion_detected = FALSE
  /\ pc = "loop"
  /\ pir_triggered = FALSE
  /\ frame = 0
  /\ detections = 0
  /\ countdown_left = 0
  /\ processed = 0
  /\ image_bytes = FALSE
  /\ sensor_motion_detected = FALSE
  /\ sensor_last_detection_time = 0
  /\ irq_pc = "idle"
  /\ now = Epoch
  /\ tick = NewTick(0)
  /\ edge_since_check = FALSE
  /\ prev_capture_time = 0

\* _can_capture() that compares against the capture interval, not the
\* configured cooldown
CanCapture_Interval(t, last, cooldown) == t - last >= DefaultCaptureInterval

\* _can_capture(): elapsed >= cooldown_seconds
CanCapture(t, last, cooldown) == t - last >= cooldown

\* `return False` of _process_frame: back in run(), time.sleep(interval)
Return == pc' = "sleep"

Locals == <<pir_triggered, frame, detections, countdown_left, processed,
            image_bytes>>
PirVars == <<sensor_motion_detected, sensor_last_detection_time, irq_pc>>
Fixed == <<cfg, pir_sensor, running>>
EngineFrame == <<Fixed, serverVars, lockVars, pureVars>>

\* run(): `while self._running:` enters _process_frame
LoopTick ==
  /\ pc = "loop"
  /\ running
  /\ pc' = "gather"
  /\ tick' = [NewTick(last_capture_time) EXCEPT
               !.prev = IF tick.raised THEN "raised"
                        ELSE IF tick.response = "failure" THEN "failure"
                        ELSE None]
  /\ pir_triggered' = FALSE
  /\ frame' = 0
  /\ detections' = 0
  /\ countdown_left' = 0
  /\ processed' = 0
  /\ image_bytes' = FALSE
  /\ UNCHANGED <<EngineFrame, last_capture_time, pir_motion_detected, PirVars,
                 now,
                 edge_since_check, prev_capture_time>>

\* PirGate with the gate turned into a log line: the tick goes on
PirGate_Informative(triggered) == "capture"

\* the PIR gate of lines 207-209, given the value of pir_triggered
PirGate(triggered) ==
  IF cfg.require_pir_for_capture /\ ~triggered THEN "sleep" ELSE "capture"

\* lines 199-209: read of the flag (`if self._pir_motion_detected:`)
GatherRead ==
  /\ pc = "gather"
  /\ IF pir_sensor /\ cfg.pir_enabled
       THEN /\ tick' = [tick EXCEPT !.edge = edge_since_check,
                                     !.gathered = TRUE]
            /\ edge_since_check' = FALSE
            /\ IF pir_motion_detected
                 THEN /\ pir_triggered' = TRUE
                      /\ pc' = "gather_clear"
                 ELSE /\ pir_triggered' = FALSE
                      /\ pc' = PirGate(FALSE)
       ELSE /\ pc' = "capture"
            /\ UNCHANGED <<tick, edge_since_check, pir_triggered>>
  /\ UNCHANGED <<EngineFrame, last_capture_time, pir_motion_detected, frame,
                 detections, countdown_left, processed, image_bytes, PirVars,
                 now, prev_capture_time>>

\* GatherClear without the assignment of line 204: the flag stays set
GatherClear_KeepsFlag ==
  /\ pc = "gather_clear"
  /\ pc' = PirGate(pir_triggered)
  /\ UNCHANGED <<EngineFrame, last_capture_time, Locals, PirVars, now, tick,
                 edge_since_check, prev_capture_time, pir_motion_detected>>

\* line 204: `self._pir_motion_detected = False`, then the gate
GatherClear ==
  /\ pc = "gather_clear"
  /\ pir_motion_detected' = FALSE
  /\ pc' = PirGate(pir_triggered)
  /\ UNCHANGED <<EngineFrame, last_capture_time, Locals, PirVars, now, tick,
                 edge_since_check, prev_capture_time>>

\* Capture without the `if detection_config.enabled:` of line 217
Capture_AlwaysDetects ==
  /\ pc = "capture"
  /\ \E ok \in BOOLEAN :
       /\ frame' = IF ok THEN 1 ELSE 0
       /\ pc' = IF ~ok THEN "sleep" ELSE "detect"
  /\ tick' = [tick EXCEPT !.captures = @ + 1]
  /\ UNCHANGED <<EngineFrame, last_capture_time, pir_motion_detected,
                 pir_triggered, detections, countdown_left, processed,
                 image_bytes, PirVars, now, edge_since_check,
                 prev_capture_time>>

\* Capture with the cooldown gate moved up, before the detection
Capture_ThenCooldown ==
  /\ pc = "capture"
  /\ \E ok \in BOOLEAN :
       /\ frame' = IF ok THEN 1 ELSE 0
       /\ pc' = IF ~ok THEN "sleep" ELSE "cooldown"
  /\ tick' = [tick EXCEPT !.captures = @ + 1]
  /\ UNCHANGED <<EngineFrame, last_capture_time, pir_motion_detected,
                 pir_triggered, detections, countdown_left, processed,
                 image_bytes, PirVars, now, edge_since_check,
                 prev_capture_time>>

\* lines 211-214: the preview capture; camera.capture() returns None when
\* the camera is not running or the driver raised
Capture ==
  /\ pc = "capture"
  /\ \E ok \in BOOLEAN :
       /\ frame' = IF ok THEN 1 ELSE 0
       /\ pc' = IF ~ok THEN "sleep"
                 ELSE IF cfg.detection_enabled THEN "detect"
                 ELSE "cooldown"
  /\ tick' = [tick EXCEPT !.captures = @ + 1]
  /\ UNCHANGED <<EngineFrame, last_capture_time, pir_motion_detected,
                 pir_triggered, detections, countdown_left, processed,
                 image_bytes, PirVars, now, edge_since_check,
                 prev_capture_time>>

\* Detect without the `if not detections: return False` of lines 226-231
Detect_IgnoresEmpty ==
  /\ pc = "detect"
  /\ \E n \in 0..1 :
       /\ detections' = n
       /\ pc' = "cooldown"
  /\ tick' = [tick EXCEPT !.detects = @ + 1]
  /\ UNCHANGED <<EngineFrame, last_capture_time, pir_motion_detected,
                 pir_triggered, frame, countdown_left, processed,
                 image_bytes, PirVars, now, edge_since_check,
                 prev_capture_time>>

\* lines 217-231: the active detector's detect(frame); an empty list ends
\* the tick
Detect ==
  /\ pc = "detect"
  /\ \E n \in 0..1 :
       /\ detections' = n
       /\ pc' = IF n = 0 THEN "sleep" ELSE "cooldown"
  /\ tick' = [tick EXCEPT !.detects = @ + 1]
  /\ UNCHANGED <<EngineFrame, last_capture_time, pir_motion_detected,
                 pir_triggered, frame, countdown_left, processed,
                 image_bytes, PirVars, now, edge_since_check,
                 prev_capture_time>>

\* CountdownCount without the `else 3` of line 246
CountdownCount_AsConfigured == cfg.countdown_seconds

\* the number of iterations of the countdown the engine starts at lines
\* 243-256, by LED variant
CountdownCount ==
  IF cfg.led = "rgb"
    THEN (IF cfg.countdown_seconds > 0 THEN cfg.countdown_seconds
          ELSE RgbFallbackCount)
    ELSE cfg.countdown_seconds

\* CooldownGate without lines 286-288: no cooldown when detection is
\* disabled
CooldownGate_DetectionOnly ==
  /\ pc = "cooldown"
  /\ IF cfg.detection_enabled
          /\ ~CanCapture(now, last_capture_time, cfg.cooldown_seconds)
       THEN /\ Return
            /\ UNCHANGED <<countdown_left, processed>>
       ELSE IF cfg.detection_enabled
         THEN /\ pc' = "countdown"
              /\ countdown_left' = CountdownCount
              /\ UNCHANGED processed
         ELSE /\ pc' = "encode"
              /\ processed' = frame
              /\ UNCHANGED countdown_left
  /\ UNCHANGED <<EngineFrame, last_capture_time, pir_motion_detected,
                 pir_triggered, frame, detections, image_bytes, PirVars, now,
                 tick, edge_since_check, prev_capture_time>>

\* lines 233-235 (detection enabled) and 286-288 (detection disabled)
CooldownGate ==
  /\ pc = "cooldown"
  /\ IF ~CanCapture(now, last_capture_time, cfg.cooldown_seconds)
       THEN /\ Return
            /\ UNCHANGED <<countdown_left, processed>>
       ELSE IF cfg.detection_enabled
         THEN /\ pc' = "countdown"
              /\ countdown_left' = CountdownCount
              /\ UNCHANGED processed
         ELSE /\ pc' = "encode"
              /\ processed' = frame
              /\ UNCHANGED countdown_left
  /\ UNCHANGED <<EngineFrame, last_capture_time, pir_motion_detected,
                 pir_triggered, frame, detections, image_bytes, PirVars, now,
                 tick, edge_since_check, prev_capture_time>>

\* lines 243-256: one iteration of the countdown loop, or the LED blink
\* that replaces it.  show_countdown sleeps 1 s per iteration;
\* countdown_blink sleeps 0.75 s per iteration and blink(2, 0.3) 1.2 s in
\* all: the clock counts whole seconds, the fractions are left to Elapse.
Countdown ==
  /\ pc = "countdown"
  /\ IF countdown_left > 0
       THEN /\ countdown_left' = countdown_left - 1
            /\ tick' = [tick EXCEPT !.countdown_steps = @ + 1]
            /\ IF cfg.led = "rgb"
                 THEN now' = now
                 ELSE /\ now < MaxTime
                      /\ now' = now + 1
            /\ pc' = pc
       ELSE /\ pc' = "capture2"
            /\ IF cfg.led = "single" /\ cfg.countdown_seconds = 0
                 THEN /\ now < MaxTime
                      /\ now' = now + 1
                 ELSE now' = now
            /\ UNCHANGED <<countdown_left, tick>>
  /\ UNCHANGED <<EngineFrame, last_capture_time, pir_motion_detected,
                 pir_triggered, frame, detections, processed, image_bytes,
                 PirVars, edge_since_check, prev_capture_time>>

\* Capture2 without the `if frame is None: return False` of lines 260-261:
\* the preview stays in `frame`
Capture2_KeepsPreview ==
  /\ pc = "capture2"
  /\ \E ok \in BOOLEAN : frame' = IF ok THEN 2 ELSE frame
  /\ pc' = "select"
  /\ tick' = [tick EXCEPT !.captures = @ + 1]
  /\ UNCHANGED <<EngineFrame, last_capture_time, pir_motion_detected,
                 pir_triggered, detections, countdown_left, processed,
                 image_bytes, PirVars, now, edge_since_check,
                 prev_capture_time>>

\* lines 258-261: the final capture, after the countdown
Capture2 ==
  /\ pc = "capture2"
  /\ \E ok \in BOOLEAN :
       /\ frame' = IF ok THEN 2 ELSE 0
       /\ pc' = IF ok THEN "select" ELSE "sleep"
  /\ tick' = [tick EXCEPT !.captures = @ + 1]
  /\ UNCHANGED <<EngineFrame, last_capture_time, pir_motion_detected,
                 pir_triggered, detections, countdown_left, processed,
                 image_bytes, PirVars, now, edge_since_check,
                 prev_capture_time>>

\* lines 263-283: the whole frame, or the crop of the first detection; both
\* are pixels of the local `frame`.  When the first box covers less than
\* min_bbox_area_ratio of the frame, line 276 calls
\* self.segmenter.expand_bbox, a method ImageSegmenter does not have
\* (vision/segmentation.py, lines 12-105): the call raises AttributeError,
\* which leaves _process_frame.
Select ==
  /\ pc = "select"
  /\ IF cfg.use_full_frame
       THEN /\ processed' = frame
            /\ pc' = "encode"
            /\ UNCHANGED tick
       ELSE \E small \in BOOLEAN :
              IF small
                THEN /\ pc' = "except"
                     /\ tick' = [tick EXCEPT !.small_bbox = TRUE,
                                             !.raised = TRUE]
                     /\ UNCHANGED processed
                ELSE /\ processed' = frame
                     /\ pc' = "encode"
                     /\ UNCHANGED tick
  /\ UNCHANGED <<EngineFrame, last_capture_time, pir_motion_detected,
                 pir_triggered, frame, detections, countdown_left,
                 image_bytes, PirVars, now, edge_since_check,
                 prev_capture_time>>

\* Encode without the `if not image_bytes: return False` of lines 292-294
Encode_NoCheck ==
  /\ pc = "encode"
  /\ \E ok \in BOOLEAN : image_bytes' = ok
  /\ pc' = "upload"
  /\ tick' = [tick EXCEPT !.encodes = @ + 1]
  /\ UNCHANGED <<EngineFrame, last_capture_time, pir_motion_detected,
                 pir_triggered, frame, detections, countdown_left, processed,
                 PirVars, now, edge_since_check, prev_capture_time>>

\* lines 290-294: encode_jpeg returns bytes or None
Encode ==
  /\ pc = "encode"
  /\ \E ok \in BOOLEAN :
       /\ image_bytes' = ok
       /\ pc' = IF ok THEN "upload" ELSE "sleep"
  /\ tick' = [tick EXCEPT !.encodes = @ + 1]
  /\ UNCHANGED <<EngineFrame, last_capture_time, pir_motion_detected,
                 pir_triggered, frame, detections, countdown_left, processed,
                 PirVars, now, edge_since_check, prev_capture_time>>

\* the value line 305 stores in _last_capture_time
UploadStamp(t) == t

\* Upload with line 305 moved above the `if response.success:`
Upload_StampsAlways ==
  /\ pc = "upload"
  /\ \E success \in BOOLEAN :
       tick' = [tick EXCEPT !.uploads = @ + 1,
                            !.response = IF success THEN "success"
                                         ELSE "failure",
                            !.uploaded = processed]
  /\ last_capture_time' = UploadStamp(now)
  /\ prev_capture_time' = last_capture_time
  /\ Return
  /\ UNCHANGED <<EngineFrame, pir_motion_detected, Locals, PirVars, now,
                 edge_since_check>>

\* lines 296-310: api_client.upload_image returns success or failure (it
\* catches its own exceptions); only success stores the time
Upload ==
  /\ pc = "upload"
  /\ \E success \in BOOLEAN :
       /\ tick' = [tick EXCEPT !.uploads = @ + 1,
                               !.response = IF success THEN "success"
                                            ELSE "failure",
                               !.uploaded = processed]
       /\ IF success
            THEN /\ last_capture_time' = UploadStamp(now)
                 /\ prev_capture_time' = last_capture_time
            ELSE UNCHANGED <<last_capture_time, prev_capture_time>>
  /\ Return
  /\ UNCHANGED <<EngineFrame, pir_motion_detected, Locals, PirVars, now,
                 edge_since_check>>

\* an exception of class Exception raised inside _process_frame (a GPIO
\* error in the LED calls, an error in the crop): lines 356-360
Raise ==
  /\ pc \in {"countdown", "select"}
  /\ pc' = "except"
  /\ tick' = [tick EXCEPT !.raised = TRUE]
  /\ UNCHANGED <<EngineFrame, last_capture_time, pir_motion_detected, Locals,
                 PirVars, now, edge_since_check, prev_capture_time>>

\* line 351: time.sleep(camera_config.capture_interval)
Sleep ==
  /\ pc = "sleep"
  /\ now + DefaultCaptureInterval <= MaxTime
  /\ now' = now + DefaultCaptureInterval
  /\ pc' = "loop"
  /\ UNCHANGED <<EngineFrame, last_capture_time, pir_motion_detected, Locals,
                 PirVars, tick, edge_since_check, prev_capture_time>>

\* the handler of lines 356-360 re-raising: the exception leaves run(), and
\* main()'s finally clause stops the engine
ExceptSleep_Reraises ==
  /\ pc = "except"
  /\ pc' = "stopped"
  /\ running' = FALSE
  /\ UNCHANGED <<cfg, pir_sensor, serverVars, lockVars, pureVars,
                 last_capture_time,
                 pir_motion_detected, Locals, PirVars, now, tick,
                 edge_since_check, prev_capture_time>>

\* line 360: time.sleep(1) after a caught exception
ExceptSleep ==
  /\ pc = "except"
  /\ now + ExceptionPause <= MaxTime
  /\ now' = now + ExceptionPause
  /\ pc' = "loop"
  /\ UNCHANGED <<EngineFrame, last_capture_time, pir_motion_detected, Locals,
                 PirVars, tick, edge_since_check, prev_capture_time>>

\* time passes while a step is running (capture, detection, upload ...)
Elapse ==
  /\ now < MaxTime
  /\ now' = now + 1
  /\ UNCHANGED <<EngineFrame, last_capture_time, pir_motion_detected, pc,
                 Locals,
                 PirVars, tick, edge_since_check, prev_capture_time>>

(***************************************************************************)
(* The PIR adapter (raspberry/utils/pir_sensor.py), run by the GPIO        *)
(* library's callback thread on each rising edge                           *)
(***************************************************************************)
\* the adapter without the cooldown test of lines 137-138
PirAccepts_Always(t, last) == TRUE

\* line 137: the edge is dropped while the adapter's cooldown runs
PirAccepts(t, last) == ~(t - last < PirCooldownTime)

\* lines 133-141: _on_motion_detected up to the release of the lock.  The
\* callback is registered only by start_detection, i.e. when pir_sensor.
PirEdge ==
  /\ pir_sensor
  /\ irq_pc = "idle"
  /\ IF PirAccepts(now, sensor_last_detection_time)
       THEN /\ sensor_last_detection_time' = now
            /\ sensor_motion_detected' = TRUE
            /\ irq_pc' = "callback"
       ELSE UNCHANGED PirVars
  /\ UNCHANGED <<EngineFrame, last_capture_time, pir_motion_detected, pc,
                 Locals,
                 now, tick, edge_since_check, prev_capture_time>>

\* lines 146-148 and main.py 178-180: self._callback() is _on_pir_motion
OnPirMotion ==
  /\ irq_pc = "callback"
  /\ pir_motion_detected' = TRUE
  /\ edge_since_check' = TRUE
  /\ irq_pc' = "idle"
  /\ UNCHANGED <<EngineFrame, last_capture_time, pc, Locals,
                 sensor_motion_detected, sensor_last_detection_time, now,
                 tick, prev_capture_time>>

EngineNext ==
  \/ LoopTick
  \/ GatherRead
  \/ GatherClear
  \/ Capture
  \/ Detect
  \/ CooldownGate
  \/ Countdown
  \/ Capture2
  \/ Select
  \/ Encode
  \/ Upload
  \/ Raise
  \/ Sleep
  \/ ExceptSleep
  \/ Elapse
  \/ PirEdge
  \/ OnPirMotion


(***************************************************************************)
(* The person detectors (raspberry/vision/person_detector.py and           *)
(* mediapipe_detector.py): detect(frame) as a function of what the         *)
(* detector's backend does for the frame                                   *)
(***************************************************************************)
\* DETECTION_MIN_CONFIDENCE: the default, and a threshold above it
MinConfidenceValues == {DefaultMinConfidence, 97}
\* the scores the HOG backend gives a rectangle (SVM weights, which can
\* exceed 1.0)
HogWeights == {40, 60, 90, 120}
\* the mean visibility of the landmarks whose visibility is above 0.5
PoseConfidences == {60, 90}

SeqsUpTo(S, n) == UNION {[1..k -> S] : k \in 0..n}

DetectInputs ==
  [ detector : {"hog", "mediapipe"},
    min_confidence : MinConfidenceValues,
    \* "unavailable": the library is missing or the detector object was not
    \* built; "error": the backend call raises; "normal": it returns
    backend : {"normal", "unavailable", "error"},
    \* the type in which detectMultiScale returns its weights
    weights : {"list", "ndarray"},
    \* the rectangles of detectMultiScale, in the order returned, each with
    \* its weight
    rects : SeqsUpTo([weight : HogWeights], MaxRects),
    \* the number of landmarks with visibility above 0.5 (0: no pose)
    pose_visible : {0, MinVisibleLandmarks - 1, MinVisibleLandmarks},
    pose_confidence : PoseConfidences ]

Min(a, b) == IF a < b THEN a ELSE b

\* person_detector.py, lines 89-96 and 154-162: the box returned in mock
\* mode and after a detection error
DummyBox == [confidence |-> DummyConfidence]

\* line 127: the confidence of a rectangle
HogConfidence(in, r) ==
  IF in.weights = "list" THEN r.weight ELSE HogDefaultConfidence

\* lines 124-144: the rectangles at or above the threshold, in the order of
\* detectMultiScale
HogKept(in) ==
  SelectSeq(in.rects,
            LAMBDA r : ~(HogConfidence(in, r) < in.min_confidence))

\* PersonDetector.detect, lines 72-162, after initialize()
HogDetect(in) ==
  IF in.backend = "unavailable" THEN <<DummyBox>>
  ELSE IF in.backend = "error" THEN <<DummyBox>>
  ELSE [i \in 1..Len(HogKept(in)) |->
          [confidence |->
             Min(FullConfidence, HogConfidence(in, HogKept(in)[i]))]]

\* MediaPipeDetector.detect, lines 119-191
MediaPipeDetect(in) ==
  IF in.backend = "unavailable" THEN <<>>
  ELSE IF in.backend = "error" THEN <<>>
  ELSE IF /\ in.pose_visible >= MinVisibleLandmarks
          /\ in.pose_confidence >= in.min_confidence
         THEN <<[confidence |-> in.pose_confidence]>>
  ELSE <<>>

\* the active detector's detect(), main.py lines 219-224
ActiveDetect(in) ==
  IF in.detector = "mediapipe" THEN MediaPipeDetect(in) ELSE HogDetect(in)

\* no detector call is being looked at
DetectorOff ==
  /\ det_in = [detector |-> "hog", min_confidence |-> DefaultMinConfidence,
               backend |-> "normal", weights |-> "ndarray", rects |-> <<>>,
               pose_visible |-> 0, pose_confidence |-> 60]
  /\ det_out = <<>>
  /\ det_pc = "off"

\* detect(frame) runs and returns
DetectCall ==
  /\ det_pc = "call"
  /\ det_out' = ActiveDetect(det_in)
  /\ det_pc' = "returned"
  /\ UNCHANGED <<det_in, engineVars, serverVars, lockVars, startVars, camVars,
                 pusherVars, mainVars>>

\* the next frame: the detector, its threshold and its library stay, the
\* content of the frame and the outcome of the backend call change
DetectNextFrame ==
  /\ det_pc = "returned"
  /\ \E in \in DetectInputs :
       /\ in.detector = det_in.detector
       /\ in.min_confidence = det_in.min_confidence
       /\ in.weights = det_in.weights
       /\ (in.backend = "unavailable") = (det_in.backend = "unavailable")
       /\ det_in' = in
  /\ det_pc' = "call"
  /\ UNCHANGED <<det_out, engineVars, serverVars, lockVars, startVars,
                 camVars, pusherVars, mainVars>>

DetectorNext == DetectCall \/ DetectNextFrame

(***************************************************************************)
(* The geometry of a returned box (person_detector.py lines 89-96 and      *)
(* 124-144, mediapipe_detector.py lines 136-183, segmentation.py lines     *)
(* 19-43).  The frame is FrameWidth x FrameHeight pixels.  A HOG input is  *)
(* one rectangle of detectMultiScale that passed the confidence filter and *)
(* lies inside the frame; a pose input is the extreme coordinates of the   *)
(* visible landmarks, normalised to [0, 1] in steps of 1/LandmarkSteps.    *)
(***************************************************************************)
Max(a, b) == IF a > b THEN a ELSE b

\* int() of the quotient n / d, d > 0: truncation towards zero
Trunc(n, d) == IF n >= 0 THEN n \div d ELSE 0 - ((0 - n) \div d)

\* frame.shape[:2]
FrameShape == [w |-> FrameWidth, h |-> FrameHeight]

\* the rectangles (x, y, width, height) inside the frame
RectsInside ==
  {r \in [x : 0..(FrameWidth - 1), y : 0..(FrameHeight - 1),
          width : 1..FrameWidth, height : 1..FrameHeight] :
     r.x + r.width <= FrameWidth /\ r.y + r.height <= FrameHeight}

\* min and max of lm.x and of lm.y over the visible landmarks, as multiples
\* of 1/LandmarkSteps
PoseExtremes ==
  {e \in [min_x : 0..LandmarkSteps, max_x : 0..LandmarkSteps,
          min_y : 0..LandmarkSteps, max_y : 0..LandmarkSteps] :
     e.min_x <= e.max_x /\ e.min_y <= e.max_y}

BoxInputs ==
  [detector : {"hog"}, backend : {"normal"}, rect : RectsInside]
    \cup [detector : {"hog"}, backend : {"unavailable", "error"}]
    \cup [detector : {"mediapipe"}, backend : {"normal"},
          pose : PoseExtremes]

\* person_detector.py, lines 89-96 and 154-162: the mock box
HogDummyBox(f) ==
  [x |-> f.w \div 4, y |-> f.h \div 4,
   width |-> f.w \div 2, height |-> f.h \div 2]

\* person_detector.py, lines 134-143: 20% of the rectangle's size is added
\* on each side
HogBox(r, f) ==
  LET padding_x == Trunc(r.width * 2, 10)
      padding_y == Trunc(r.height * 2, 10)
  IN  [x |-> Max(0, r.x - padding_x),
       y |-> Max(0, r.y - padding_y),
       width |-> Min(f.w, r.width + 2 * padding_x),
       height |-> Min(f.h, r.height + 2 * padding_y)]

\* mediapipe_detector.py, lines 160-177: the landmark at k/LandmarkSteps is
\* at pixel k * size / LandmarkSteps; 10% of the frame's size is added on
\* each side
PoseLow(k, size) ==
  Max(0, Trunc(10 * k * size - LandmarkSteps * size, 10 * LandmarkSteps))

PoseHigh(k, size) ==
  Min(size, Trunc(10 * k * size + LandmarkSteps * size, 10 * LandmarkSteps))

PoseBox(e, f) ==
  [x |-> PoseLow(e.min_x, f.w),
   y |-> PoseLow(e.min_y, f.h),
   width |-> PoseHigh(e.max_x, f.w) - PoseLow(e.min_x, f.w),
   height |-> PoseHigh(e.max_y, f.h) - PoseLow(e.min_y, f.h)]

\* the box detect() returns for the input
BoxOf(in, f) ==
  IF in.detector = "mediapipe" THEN PoseBox(in.pose, f)
  ELSE IF in.backend = "normal" THEN HogBox(in.rect, f)
  ELSE HogDummyBox(f)

\* segmentation.py, lines 34-42: the region crop_bbox cuts out of the frame
CropBbox(f, bbox) ==
  [x1 |-> Max(0, bbox.x), y1 |-> Max(0, bbox.y),
   x2 |-> Min(f.w, bbox.x + bbox.width),
   y2 |-> Min(f.h, bbox.y + bbox.height)]

BoxFrame == <<engineVars, serverVars, lockVars, startVars, camVars,
              pusherVars, mainVars>>

\* detect(frame) returns the box
BoxDetect ==
  /\ det_pc = "call"
  /\ det_out' = <<BoxOf(det_in, FrameShape)>>
  /\ det_pc' = "returned"
  /\ UNCHANGED <<det_in, BoxFrame>>

\* main.py, line 282: the box is cut out of the frame
BoxCrop ==
  /\ det_pc = "returned"
  /\ det_out' = Append(det_out, CropBbox(FrameShape, det_out[1]))
  /\ det_pc' = "cropped"
  /\ UNCHANGED <<det_in, BoxFrame>>

BoxNext == BoxDetect \/ BoxCrop

(***************************************************************************)
(* Start-up (raspberry/main.py: __init__, initialize, the detector choice  *)
(* of _process_frame, cleanup)                                             *)
(***************************************************************************)
StartInputs ==
  [ detection_enabled : BOOLEAN,    \* detection_config.enabled
    use_mediapipe : BOOLEAN,        \* detection_config.use_mediapipe
    has_mediapipe : BOOLEAN,        \* HAS_MEDIAPIPE: the import succeeded
    mediapipe_init : BOOLEAN,       \* what mp_pose.Pose(...) does: TRUE = built
    pir_enabled : BOOLEAN,          \* pir_config.enabled
    pir_init : BOOLEAN,             \* what GPIO.setup does: TRUE = no error
    \* the step of initialize() that raises: none, GPIO.add_event_detect
    \* inside start_detection, or a step after the PIR block
    raises : {"none", "add_event_detect", "later"} ]

\* __init__, lines 36-51
NewApp == [detector |-> FALSE, mediapipe_detector |-> FALSE,
           use_mediapipe |-> FALSE, pir_sensor |-> FALSE,
           callback |-> FALSE]

\* MediaPipeDetector.initialize(), mediapipe_detector.py lines 91-117
MediaPipeInitialize(in) == in.has_mediapipe /\ in.mediapipe_init

\* PIRSensor.initialize(), pir_sensor.py lines 52-79; without GPIO it is a
\* mock and returns True
PirInitialize(in) == in.pir_init

\* InitDetectors without the reset of line 77
InitDetectors_NoReset(a, in) ==
  IF ~in.detection_enabled THEN a
  ELSE IF in.use_mediapipe /\ in.has_mediapipe
    THEN IF MediaPipeInitialize(in)
           THEN [a EXCEPT !.mediapipe_detector = TRUE, !.use_mediapipe = TRUE]
           ELSE [a EXCEPT !.mediapipe_detector = TRUE, !.detector = TRUE]
    ELSE [a EXCEPT !.detector = TRUE]

\* initialize(), lines 67-84: the detector block
InitDetectors(a, in) ==
  IF ~in.detection_enabled THEN a
  ELSE IF in.use_mediapipe /\ in.has_mediapipe
    THEN IF MediaPipeInitialize(in)
           \* lines 71-73
           THEN [a EXCEPT !.mediapipe_detector = TRUE, !.use_mediapipe = TRUE]
           \* lines 76-77, then 80-82
           ELSE [a EXCEPT !.mediapipe_detector = FALSE, !.detector = TRUE]
    \* lines 80-82
    ELSE [a EXCEPT !.detector = TRUE]

\* initialize(), lines 102-115: the PIR block, when start_detection returns
InitPir(a, in) ==
  IF ~in.pir_enabled THEN a
  ELSE IF PirInitialize(in)
    THEN [a EXCEPT !.pir_sensor = TRUE, !.callback = TRUE]
    ELSE [a EXCEPT !.pir_sensor = FALSE]

\* the PIR block when GPIO.add_event_detect raises: line 103 has assigned
\* self.pir_sensor, start_detection has stored the callback (line 95)
InitPirRaises(a, in) == [a EXCEPT !.pir_sensor = TRUE, !.callback = TRUE]

\* initialize(), lines 53-151: True, or False from the except of line 147
Initialize ==
  /\ start_pc = "new"
  /\ IF /\ start_in.raises = "add_event_detect"
        /\ start_in.pir_enabled /\ PirInitialize(start_in)
       THEN /\ app' = InitPirRaises(InitDetectors(app, start_in), start_in)
            /\ start_pc' = "failed"
       ELSE /\ app' = InitPir(InitDetectors(app, start_in), start_in)
            /\ start_pc' = IF start_in.raises = "later" THEN "failed"
                           ELSE "run"
  /\ UNCHANGED <<start_in, called, engineVars, serverVars, lockVars, detVars,
                 camVars, pusherVars, mainVars>>

\* _process_frame, lines 217-224: the detector the tick calls; None when the
\* detection step is skipped
TickDetect ==
  /\ start_pc = "run"
  /\ called' =
       IF start_in.detection_enabled
            /\ (app.detector \/ app.mediapipe_detector)
         THEN IF app.use_mediapipe /\ app.mediapipe_detector
                THEN "mediapipe_detector"
                ELSE IF app.detector THEN "detector" ELSE None
         ELSE None
  /\ UNCHANGED <<start_in, app, start_pc, engineVars, serverVars, lockVars,
                 detVars, camVars, pusherVars, mainVars>>

\* main(), lines 384-388, and cleanup(), lines 153-176: the detectors and
\* the sensor are released, the attributes stay
Cleanup ==
  /\ start_pc \in {"run", "failed"}
  /\ start_pc' = "cleaned"
  /\ UNCHANGED <<start_in, app, called, engineVars, serverVars, lockVars,
                 detVars, camVars, pusherVars, mainVars>>

\* no start-up is being looked at
StartupOff ==
  /\ start_in = [detection_enabled |-> TRUE, use_mediapipe |-> FALSE,
                 has_mediapipe |-> FALSE, mediapipe_init |-> FALSE,
                 pir_enabled |-> FALSE, pir_init |-> FALSE,
                 raises |-> "none"]
  /\ app = NewApp
  /\ start_pc = "off"
  /\ called = None

StartupNext == Initialize \/ TickDetect \/ Cleanup

(***************************************************************************)
(* The camera source (raspberry/camera/picam_source.py): capture() and     *)
(* get_latest_frame() called by the engine thread and a streaming thread,  *)
(* at the grain of `with self._frame_lock:` and of the cells a copy moves  *)
(***************************************************************************)
CamThreads == {"engine", "stream"}

\* `None` where an array is expected
NoArray == <<>>
\* the n-th frame of the driver
Whole(n) == [i \in 1..FrameCells |-> n]

\* a thread that is not inside a method of the camera source; `out` is
\* what its last call returned
CamIdle == [pc |-> "idle", op |-> None, frame |-> NoArray, tmp |-> NoArray,
            seen |-> 0, out |-> NoArray]

\* others: what a camera action of thread t leaves alone
CamFrame == <<engineVars, serverVars, lockVars, detVars, startVars,
              pusherVars, mainVars>>

\* start(), lines 45-68
CamStart ==
  /\ cam["engine"].pc = "idle"
  /\ ~cam_running
  /\ cam_running' = TRUE
  /\ UNCHANGED <<cam_latest, frame_lock, cam, cam_count, cam_stored, CamFrame>>

\* stop(), lines 70-84: the cache is not cleared
CamStop ==
  /\ cam["engine"].pc = "idle"
  /\ cam_running
  /\ cam_running' = FALSE
  /\ UNCHANGED <<cam_latest, frame_lock, cam, cam_count, cam_stored, CamFrame>>

\* CaptureCall whose failure path also drops the cached frame
CaptureCall_FailureClears(t) ==
  /\ cam[t].pc = "idle"
  /\ IF ~cam_running
       THEN /\ cam' = [cam EXCEPT ![t] = [CamIdle EXCEPT !.op = "capture"]]
            /\ cam_latest' = NoArray
            /\ UNCHANGED cam_count
       ELSE \E ok \in BOOLEAN :
              IF ok
                THEN /\ cam_count < MaxCaptures
                     /\ cam_count' = cam_count + 1
                     /\ cam' = [cam EXCEPT ![t] =
                                  [CamIdle EXCEPT !.pc = "capture_lock",
                                                  !.op = "capture",
                                                  !.frame = Whole(cam_count')]]
                     /\ UNCHANGED cam_latest
                ELSE /\ cam' = [cam EXCEPT ![t] =
                                  [CamIdle EXCEPT !.op = "capture"]]
                     /\ cam_latest' = NoArray
                     /\ UNCHANGED cam_count
  /\ UNCHANGED <<cam_running, frame_lock, cam_stored, CamFrame>>

\* capture(), lines 93-111: None when the camera is not running or
\* capture_array raises, else the frame of the driver (or of the mock)
CaptureCall(t) ==
  /\ cam[t].pc = "idle"
  /\ IF ~cam_running
       THEN /\ cam' = [cam EXCEPT ![t] = [CamIdle EXCEPT !.op = "capture"]]
            /\ UNCHANGED cam_count
       ELSE \E ok \in BOOLEAN :
              IF ok
                THEN /\ cam_count < MaxCaptures
                     /\ cam_count' = cam_count + 1
                     /\ cam' = [cam EXCEPT ![t] =
                                  [CamIdle EXCEPT !.pc = "capture_lock",
                                                  !.op = "capture",
                                                  !.frame = Whole(cam_count')]]
                ELSE /\ cam' = [cam EXCEPT ![t] =
                                  [CamIdle EXCEPT !.op = "capture"]]
                     /\ UNCHANGED cam_count
  /\ UNCHANGED <<cam_running, cam_latest, frame_lock, cam_stored, CamFrame>>

\* line 116: `with self._frame_lock:` entered
CaptureAcquire(t) ==
  /\ cam[t].pc = "capture_lock"
  /\ frame_lock = None
  /\ frame_lock' = t
  /\ cam' = [cam EXCEPT ![t].pc = "capture_copy"]
  /\ UNCHANGED <<cam_running, cam_latest, cam_count, cam_stored, CamFrame>>

\* line 117, frame.copy(): one more cell of the frame is copied into a new
\* array
CaptureCopy(t) ==
  /\ cam[t].pc = "capture_copy"
  /\ LET next == Append(cam[t].tmp, cam[t].frame[Len(cam[t].tmp) + 1]) IN
       cam' = [cam EXCEPT ![t].tmp = next,
                          ![t].pc = IF Len(next) = FrameCells
                                      THEN "capture_store"
                                      ELSE "capture_copy"]
  /\ UNCHANGED <<cam_running, cam_latest, frame_lock, cam_count, cam_stored,
                 CamFrame>>

\* line 117: the copy is bound to self._latest_frame
CaptureStore(t) ==
  /\ cam[t].pc = "capture_store"
  /\ cam_latest' = cam[t].tmp
  /\ cam_stored' = cam[t].frame[1]
  /\ cam' = [cam EXCEPT ![t].pc = "capture_release"]
  /\ UNCHANGED <<cam_running, frame_lock, cam_count, CamFrame>>

\* the with block is left; line 119: `return frame`
CaptureRelease(t) ==
  /\ cam[t].pc = "capture_release"
  /\ frame_lock' = None
  /\ cam' = [cam EXCEPT ![t] = [CamIdle EXCEPT !.op = "capture",
                                              !.out = cam[t].frame]]
  /\ UNCHANGED <<cam_running, cam_latest, cam_count, cam_stored, CamFrame>>

\* get_latest_frame(), lines 128-130: the lock is taken and the cache
\* looked at
GetLatestAcquire(t) ==
  /\ cam[t].pc = "idle"
  /\ frame_lock = None
  /\ frame_lock' = t
  /\ cam' = [cam EXCEPT ![t] =
               [CamIdle EXCEPT !.op = "get_latest_frame",
                               !.seen = cam_stored,
                               !.pc = IF cam_latest # NoArray
                                        THEN "get_copy"
                                        ELSE "get_release"]]
  /\ UNCHANGED <<cam_running, cam_latest, cam_count, cam_stored, CamFrame>>

\* line 130, self._latest_frame.copy(): one more cell
GetLatestCopy(t) ==
  /\ cam[t].pc = "get_copy"
  /\ LET next == Append(cam[t].tmp, cam_latest[Len(cam[t].tmp) + 1]) IN
       cam' = [cam EXCEPT ![t].tmp = next,
                          ![t].pc = IF Len(next) = FrameCells
                                      THEN "get_release"
                                      ELSE "get_copy"]
  /\ UNCHANGED <<cam_running, cam_latest, frame_lock, cam_count, cam_stored,
                 CamFrame>>

\* lines 130-131: the copy, or None, is returned and the lock released
GetLatestRelease(t) ==
  /\ cam[t].pc = "get_release"
  /\ frame_lock' = None
  /\ cam' = [cam EXCEPT ![t] = [CamIdle EXCEPT !.op = "get_latest_frame",
                                              !.seen = cam[t].seen,
                                              !.out = cam[t].tmp]]
  /\ UNCHANGED <<cam_running, cam_latest, cam_count, cam_stored, CamFrame>>

\* __init__, lines 35-43, and no thread in a method
CameraNew ==
  /\ cam_running = FALSE
  /\ cam_latest = NoArray
  /\ frame_lock = None
  /\ cam = [t \in CamThreads |-> CamIdle]
  /\ cam_count = 0
  /\ cam_stored = 0

CameraNext ==
  \/ CamStart
  \/ CamStop
  \/ \E t \in CamThreads : CaptureCall(t)
  \/ \E t \in CamThreads : CaptureAcquire(t)
  \/ \E t \in CamThreads : CaptureCopy(t)
  \/ \E t \in CamThreads : CaptureStore(t)
  \/ \E t \in CamThreads : CaptureRelease(t)
  \/ \E t \in CamThreads : GetLatestAcquire(t)
  \/ \E t \in CamThreads : GetLatestCopy(t)
  \/ \E t \in CamThreads : GetLatestRelease(t)

(***************************************************************************)
(* The stream relay (server/services/stream_relay.py)                      *)
(***************************************************************************)
Ingress == {"pi1", "pi2"}     \* ingress handlers; source_id = f"pi-{id(ws)}"
Egress == {"c1", "c2"}        \* egress handlers, each with its own queue
Callers == {"t1", "t2"}       \* threads calling the relay's methods

\* a thread that is not inside a method of the relay
Idle == [pc |-> "idle", op |-> None, arg |-> None, frame |-> NoFrame,
         status |-> [source_connected |-> FALSE, source_id |-> None,
                     frame_age_seconds |-> None, has_frame |-> FALSE]]

\* the last call of a relay method: its name, its source id or queue
\* argument, the frame passed or returned, the returned value
\* ("True" / "False" / "None"), the queues a push found full
NoCall == [op |-> None, arg |-> None, frame |-> NoFrame, ret |-> None,
           full |-> {}]

\* StreamRelay.__init__(max_frames=n)
RelayNew(n) ==
  /\ max_frames = n
  /\ connected_source = FALSE
  /\ source_id = None
  /\ latest_frame = NoFrame
  /\ frame_timestamp = 0
  /\ frame_buffer = <<>>
  /\ clients = {}
  /\ queue = [q \in Egress |-> <<>>]
  /\ pushed = 0
  /\ call = NoCall
  /\ received = [q \in Egress |-> 0]
  \* line 26: threading.Lock(), free; no thread is inside a method
  /\ lock = None
  /\ thr = [t \in Callers |-> Idle]

\* line 130: the singleton, `stream_relay = StreamRelay()`
RelayInit == RelayNew(DefaultMaxFrames)

\* no connection is open
HandlersInit ==
  /\ ing = [h \in Ingress |-> [pc |-> "closed", code |-> 0]]
  /\ egr = [e \in Egress |-> "closed"]

\* a deque without maxlen: nothing is evicted
DequeAppend_Unbounded(d, x, n) == Append(d, x)

\* deque(maxlen=n).append(x)
DequeAppend(d, x, n) ==
  IF Len(d) >= n THEN Append(Tail(d), x) ELSE Append(d, x)

\* connect_source without the `if self._connected_source` test
ConnectSource_NoArbitration(id) ==
  /\ connected_source' = TRUE
  /\ source_id' = id
  /\ call' = [op |-> "connect_source", arg |-> id, frame |-> NoFrame,
              ret |-> "True", full |-> {}]
  /\ UNCHANGED <<latest_frame, frame_timestamp, frame_buffer, clients, queue,
                 pushed, received>>

\* connect_source(source_id), lines 49-59
ConnectSource(id) ==
  /\ IF connected_source
       THEN /\ call' = [op |-> "connect_source", arg |-> id,
                         frame |-> NoFrame, ret |-> "False", full |-> {}]
            /\ UNCHANGED <<connected_source, source_id>>
       ELSE /\ connected_source' = TRUE
            /\ source_id' = id
            /\ call' = [op |-> "connect_source", arg |-> id, frame |-> NoFrame,
              ret |-> "True", full |-> {}]
  /\ UNCHANGED <<latest_frame, frame_timestamp, frame_buffer, clients, queue,
                 pushed, received>>

\* disconnect_source without the comparison of ids
DisconnectSource_AnyId(id) ==
  /\ connected_source' = FALSE
  /\ source_id' = None
  /\ latest_frame' = NoFrame
  /\ call' = [op |-> "disconnect_source", arg |-> id, frame |-> NoFrame,
              ret |-> None, full |-> {}]
  /\ UNCHANGED <<frame_timestamp, frame_buffer, clients, queue, pushed,
                 received>>

\* disconnect_source that keeps the cached frame
DisconnectSource_KeepsFrame(id) ==
  /\ IF source_id = id
       THEN /\ connected_source' = FALSE
            /\ source_id' = None
       ELSE UNCHANGED <<connected_source, source_id>>
  /\ call' = [op |-> "disconnect_source", arg |-> id, frame |-> NoFrame,
              ret |-> None, full |-> {}]
  /\ UNCHANGED <<latest_frame, frame_timestamp, frame_buffer, clients, queue,
                 pushed, received>>

\* disconnect_source without line 66: the id of the source stays
DisconnectSource_KeepsId(id) ==
  /\ IF source_id = id
       THEN /\ connected_source' = FALSE
            /\ latest_frame' = NoFrame
            /\ UNCHANGED source_id
       ELSE UNCHANGED <<connected_source, source_id, latest_frame>>
  /\ call' = [op |-> "disconnect_source", arg |-> id, frame |-> NoFrame,
              ret |-> None, full |-> {}]
  /\ UNCHANGED <<frame_timestamp, frame_buffer, clients, queue, pushed,
                 received>>

\* disconnect_source(source_id), lines 61-68
DisconnectSource(id) ==
  /\ IF source_id = id
       THEN /\ connected_source' = FALSE
            /\ source_id' = None
            /\ latest_frame' = NoFrame
       ELSE UNCHANGED <<connected_source, source_id, latest_frame>>
  /\ call' = [op |-> "disconnect_source", arg |-> id, frame |-> NoFrame,
              ret |-> None, full |-> {}]
  /\ UNCHANGED <<frame_timestamp, frame_buffer, clients, queue, pushed,
                 received>>

\* the fan-out into a queue without a size limit (maxsize=0): nothing is
\* ever dropped
Offer_Unbounded(q, f) == Append(q, f)

\* the fan-out without lines 86-90: put_nowait on a full queue raises
\* QueueFull, which line 92 swallows, so the new frame is the one lost
Offer_DropNewest(q, f) ==
  IF Len(q) >= QueueMaxSize THEN q ELSE Append(q, f)

\* the fan-out putting the frame at the head of the queue
Offer_AtHead(q, f) ==
  IF Len(q) >= QueueMaxSize THEN <<f>> \o Tail(q) ELSE <<f>> \o q

\* lines 84-93 for one client queue: a full queue loses its oldest item,
\* then the frame is put at the tail
Offer(q, f) ==
  IF Len(q) >= QueueMaxSize THEN Append(Tail(q), f) ELSE Append(q, f)

\* push_frame(frame_data), lines 70-93; the frame pushed by the n-th call is
\* identified by n, and stamped with it
PushFrame ==
  /\ pushed' = pushed + 1
  /\ latest_frame' = pushed'
  /\ frame_timestamp' = pushed'
  /\ frame_buffer' = DequeAppend(frame_buffer, pushed', max_frames)
  /\ queue' = [q \in Egress |->
                 IF q \in clients THEN Offer(queue[q], pushed')
                 ELSE queue[q]]
  /\ call' = [op |-> "push_frame", arg |-> None, frame |-> pushed',
              ret |-> None,
              full |-> {q \in clients : Len(queue[q]) >= QueueMaxSize}]
  /\ UNCHANGED <<connected_source, source_id, clients, received>>

\* get_latest_frame(), lines 95-98
GetLatestFrame == latest_frame

\* get_frame_age(), lines 100-104: infinite while no frame was ever
\* stamped, else the seconds since the stamp
GetFrameAge == IF frame_timestamp = 0 THEN "inf" ELSE "seconds"

\* get_status that reports the frame age without looking at the frame
GetStatus_AgeUnguarded ==
  [ source_connected |-> connected_source,
    source_id |-> source_id,
    client_count |-> Cardinality(clients),
    frame_age_seconds |-> GetFrameAge,
    has_frame |-> latest_frame # NoFrame ]

\* get_status(), lines 118-126
GetStatus ==
  [ source_connected |-> connected_source,
    source_id |-> source_id,
    client_count |-> Cardinality(clients),
    frame_age_seconds |-> IF latest_frame # NoFrame THEN GetFrameAge
                          ELSE None,
    has_frame |-> latest_frame # NoFrame ]

\* subscribe(), lines 106-111: a new, empty queue joins the registry
Subscribe(q) ==
  /\ q \notin clients
  /\ clients' = clients \cup {q}
  /\ queue' = [queue EXCEPT ![q] = <<>>]
  /\ received' = [received EXCEPT ![q] = 0]
  /\ call' = [op |-> "subscribe", arg |-> q, frame |-> NoFrame,
              ret |-> "queue", full |-> {}]
  /\ UNCHANGED <<connected_source, source_id, latest_frame, frame_timestamp,
                 frame_buffer, pushed>>

\* unsubscribe(queue), lines 113-116; the queue object itself is the
\* caller's
Unsubscribe(q) ==
  /\ clients' = clients \ {q}
  /\ call' = [op |-> "unsubscribe", arg |-> q, frame |-> NoFrame,
              ret |-> None, full |-> {}]
  /\ UNCHANGED <<connected_source, source_id, latest_frame, frame_timestamp,
                 frame_buffer, pushed>>

\* queue.get() by the reader of a queue that holds an item
QueueGet(q) ==
  /\ queue[q] # <<>>
  /\ received' = [received EXCEPT ![q] = Head(queue[q])]
  /\ queue' = [queue EXCEPT ![q] = Tail(queue[q])]
  /\ call' = [op |-> "get", arg |-> q, frame |-> Head(queue[q]),
              ret |-> "frame", full |-> {}]
  /\ UNCHANGED <<connected_source, source_id, latest_frame, frame_timestamp,
                 frame_buffer, clients, pushed>>

(***************************************************************************)
(* RelaySpec: the relay's methods called in any order                      *)
(***************************************************************************)
\* what the relay's methods and the router's handlers leave alone: the Pi
\* and the threads of LockSpec
Outside == <<engineVars, lockVars, pureVars, builtVars>>

ApiFrame == <<Outside, handlerVars>>

ApiConnectSource == \E id \in Ingress : ConnectSource(id) /\ UNCHANGED ApiFrame

ApiDisconnectSource ==
  \E id \in Ingress : DisconnectSource(id) /\ UNCHANGED ApiFrame

ApiPushFrame == pushed < MaxPushes /\ PushFrame /\ UNCHANGED ApiFrame

ApiSubscribe == \E q \in Egress : Subscribe(q) /\ UNCHANGED ApiFrame

\* the caller drops the queue it unsubscribed
ApiUnsubscribe ==
  \E q \in Egress :
    /\ q \in clients
    /\ Unsubscribe(q)
    /\ queue' = [queue EXCEPT ![q] = <<>>]
    /\ received' = [received EXCEPT ![q] = 0]
    /\ UNCHANGED ApiFrame

\* the reader of one subscribed queue takes the next item
ApiQueueGetOf(q) == q \in clients /\ QueueGet(q) /\ UNCHANGED ApiFrame

ApiQueueGet == \E q \in Egress : ApiQueueGetOf(q)

RelayNext ==
  \/ ApiConnectSource
  \/ ApiDisconnectSource
  \/ ApiPushFrame
  \/ ApiSubscribe
  \/ ApiUnsubscribe
  \/ ApiQueueGet

(***************************************************************************)
(* LockSpec: the relay's methods called by threads, at the grain of        *)
(* `with self._lock:`.  A method's statements inside the with block run    *)
(* while the thread holds the lock; the statements outside it run without. *)
(***************************************************************************)
\* the thread t is not inside a method of the relay; "status_done": it holds
\* the dict its last call, of get_status, returned
AtRest(t) == thr[t].pc \in {"idle", "status_done"}

\* the methods whose body is a `with self._lock:` block (lines 51, 63, 72,
\* 97)
LockedOps == {"connect_source", "disconnect_source", "push_frame",
              "get_latest_frame"}

\* lines 72-80 of push_frame, the part inside the with block
PushStore ==
  /\ pushed' = pushed + 1
  /\ latest_frame' = pushed'
  /\ frame_timestamp' = pushed'
  /\ frame_buffer' = DequeAppend(frame_buffer, pushed', max_frames)
  /\ call' = [op |-> "push_frame", arg |-> None, frame |-> pushed',
              ret |-> None, full |-> {}]
  /\ UNCHANGED <<connected_source, source_id, clients, queue, received>>

\* lines 82-93 of push_frame, after the with block: the fan-out of frame f
PushFanout(f) ==
  /\ queue' = [q \in Egress |->
                 IF q \in clients THEN Offer(queue[q], f) ELSE queue[q]]
  /\ call' = [op |-> "push_frame", arg |-> None, frame |-> f, ret |-> None,
              full |-> {q \in clients : Len(queue[q]) >= QueueMaxSize}]
  /\ UNCHANGED <<connected_source, source_id, latest_frame, frame_timestamp,
                 frame_buffer, clients, pushed, received>>

\* get_latest_frame(), lines 95-98, as a call
ReadLatestFrame ==
  /\ call' = [op |-> "get_latest_frame", arg |-> None,
              frame |-> GetLatestFrame,
              ret |-> IF GetLatestFrame = NoFrame THEN None ELSE "frame",
              full |-> {}]
  /\ UNCHANGED <<relayVars, pushed, received>>

\* a thread enters the with block of one of the locked methods
Acquire(t) ==
  /\ AtRest(t)
  /\ lock = None
  /\ lock' = t
  /\ \E op \in LockedOps, id \in Ingress :
       /\ op = "push_frame" => pushed < MaxLockedPushes
       /\ thr' = [thr EXCEPT ![t] =
                    [Idle EXCEPT
                       !.pc = "locked",
                       !.op = op,
                       !.arg = IF op \in {"connect_source",
                                          "disconnect_source"}
                                 THEN id ELSE None]]
  /\ UNCHANGED <<engineVars, pureVars, serverVars>>

\* the statements inside the with block
LockedBody(t) ==
  /\ thr[t].pc = "locked"
  /\ CASE thr[t].op = "connect_source" -> ConnectSource(thr[t].arg)
       [] thr[t].op = "disconnect_source" -> DisconnectSource(thr[t].arg)
       [] thr[t].op = "push_frame" -> PushStore
       [] thr[t].op = "get_latest_frame" -> ReadLatestFrame
  /\ thr' = [thr EXCEPT ![t].pc = "release",
                        ![t].frame = IF thr[t].op = "push_frame"
                                       THEN pushed' ELSE NoFrame]
  /\ UNCHANGED <<engineVars, pureVars, handlerVars, builtVars, lock>>

\* the end of the with block; push_frame goes on to its fan-out
Release(t) ==
  /\ thr[t].pc = "release"
  /\ lock' = None
  /\ thr' = [thr EXCEPT ![t] =
               IF thr[t].op = "push_frame"
                 THEN [thr[t] EXCEPT !.pc = "fanout"]
                 ELSE Idle]
  /\ UNCHANGED <<engineVars, pureVars, serverVars>>

\* lines 82-93, run by the pushing thread after it released the lock
Fanout(t) ==
  /\ thr[t].pc = "fanout"
  /\ PushFanout(thr[t].frame)
  /\ thr' = [thr EXCEPT ![t] = Idle]
  /\ UNCHANGED <<engineVars, pureVars, handlerVars, builtVars, lock>>

\* subscribe(), lines 106-111: no with block
ThreadSubscribe(t) ==
  /\ AtRest(t)
  /\ \E q \in Egress : Subscribe(q)
  /\ UNCHANGED <<engineVars, pureVars, handlerVars, builtVars, lockVars>>

\* unsubscribe(), lines 113-116: no with block; the caller drops the queue
ThreadUnsubscribe(t) ==
  /\ AtRest(t)
  /\ \E q \in clients :
       /\ Unsubscribe(q)
       /\ queue' = [queue EXCEPT ![q] = <<>>]
       /\ received' = [received EXCEPT ![q] = 0]
  /\ UNCHANGED <<engineVars, pureVars, handlerVars, builtVars, lockVars>>

\* get_status(), lines 118-126, has no with block: the dict display reads
\* the fields one after the other.  First _connected_source, _source_id
\* (and the size of _clients, which the model does not keep)
StatusReadSource(t) ==
  /\ AtRest(t)
  \* one call of get_status at a time is followed
  /\ \A u \in Callers :
       thr[u].pc \notin {"status_source", "status_age", "status_frame"}
  /\ thr' = [thr EXCEPT ![t] =
               [Idle EXCEPT !.pc = "status_source",
                            !.op = "get_status",
                            !.status.source_connected = connected_source]]
  /\ UNCHANGED <<engineVars, pureVars, serverVars, lock>>

StatusReadSourceId(t) ==
  /\ thr[t].pc = "status_source"
  /\ thr' = [thr EXCEPT ![t].pc = "status_age",
                        ![t].status.source_id = source_id]
  /\ UNCHANGED <<engineVars, pureVars, serverVars, lock>>

\* line 124: `self.get_frame_age() if self._latest_frame else None`
StatusReadAge(t) ==
  /\ thr[t].pc = "status_age"
  /\ thr' = [thr EXCEPT ![t].pc = "status_frame",
                        ![t].status.frame_age_seconds =
                           GetStatus.frame_age_seconds]
  /\ UNCHANGED <<engineVars, pureVars, serverVars, lock>>

\* line 125: `self._latest_frame is not None`; the dict is complete and
\* get_status returns it
StatusReadFrame(t) ==
  /\ thr[t].pc = "status_frame"
  /\ thr' = [thr EXCEPT ![t].pc = "status_done",
                        ![t].status.has_frame = GetStatus.has_frame]
  /\ UNCHANGED <<engineVars, pureVars, serverVars, lock>>

LockNext ==
  \/ \E t \in Callers : StatusReadSource(t)
  \/ \E t \in Callers : StatusReadSourceId(t)
  \/ \E t \in Callers : StatusReadAge(t)
  \/ \E t \in Callers : StatusReadFrame(t)
  \/ \E t \in Callers : Acquire(t)
  \/ \E t \in Callers : LockedBody(t)
  \/ \E t \in Callers : Release(t)
  \/ \E t \in Callers : Fanout(t)
  \/ \E t \in Callers : ThreadSubscribe(t)
  \/ \E t \in Callers : ThreadUnsubscribe(t)

(***************************************************************************)
(* The router's handlers (server/routers/stream.py).  They are coroutines  *)
(* of one event loop: a handler runs without interruption from one await   *)
(* to the next, and the relay's methods contain no await.                  *)
(***************************************************************************)
\* lines 32-37: the secret is checked, then `await websocket.accept()`
IngressOpen(h) ==
  /\ ing[h].pc = "closed"
  /\ \E secret_ok \in BOOLEAN :
       ing' = [ing EXCEPT ![h] =
                 IF secret_ok
                   THEN [pc |-> "accepted", code |-> 0]
                   ELSE [pc |-> "closed", code |-> CloseInvalidSecret]]
  /\ UNCHANGED <<Outside, relayVars, egr, observedVars>>

\* IngressConnect without the `if not ...: close; return` of lines 43-45:
\* a refused handler goes on to its receive loop
IngressConnect_IgnoresRefusal(h) ==
  /\ ing[h].pc = "accepted"
  /\ ConnectSource(h)
  /\ ing' = [ing EXCEPT ![h] = [pc |-> "streaming", code |-> 0]]
  /\ UNCHANGED <<Outside, egr>>

\* lines 39-45: connect_source; a refused handler closes with 4002 and
\* returns before the try/finally
IngressConnect(h) ==
  /\ ing[h].pc = "accepted"
  /\ ConnectSource(h)
  /\ ing' = [ing EXCEPT ![h] =
               IF call'.ret = "True"
                 THEN [pc |-> "streaming", code |-> 0]
                 ELSE [pc |-> "closed", code |-> CloseAnotherSource]]
  /\ UNCHANGED <<Outside, egr>>

\* lines 50-55: one received message; empty data is not pushed
IngressReceive(h) ==
  /\ ing[h].pc = "streaming"
  /\ \E has_data \in BOOLEAN :
       IF has_data
         THEN pushed < MaxReceived /\ PushFrame
         ELSE UNCHANGED <<relayVars, observedVars>>
  /\ UNCHANGED <<Outside, ing, egr>>

\* IngressDisconnect without the finally clause of lines 61-62
IngressDisconnect_NoRelease(h) ==
  /\ ing[h].pc = "streaming"
  /\ ing' = [ing EXCEPT ![h] = [pc |-> "closed", code |-> 0]]
  /\ UNCHANGED <<Outside, egr, relayVars, observedVars>>

\* lines 57-62: WebSocketDisconnect or another exception ends the loop and
\* the finally clause releases the slot
IngressDisconnect(h) ==
  /\ ing[h].pc = "streaming"
  /\ DisconnectSource(h)
  /\ ing' = [ing EXCEPT ![h] = [pc |-> "closed", code |-> 0]]
  /\ UNCHANGED <<Outside, egr>>

\* lines 75-79 and 110: 503 without a source, else the streaming response
EgressRequest(e) ==
  /\ egr[e] \in {"closed", "ended"}
  /\ egr' = [egr EXCEPT ![e] = IF connected_source THEN "responding"
                               ELSE "closed"]
  /\ UNCHANGED <<Outside, relayVars, ing, observedVars>>

\* line 83: the generator starts and subscribes
EgressSubscribe(e) ==
  /\ egr[e] = "responding"
  /\ Subscribe(e)
  /\ egr' = [egr EXCEPT ![e] = "subscribed"]
  /\ UNCHANGED <<Outside, ing>>

\* lines 89-99: queue.get() returns a frame, which is sent to the consumer
EgressYield(e) ==
  /\ egr[e] = "subscribed"
  /\ QueueGet(e)
  /\ UNCHANGED <<Outside, ing, egr>>

\* EgressTimeout without the test of line 103: any timeout ends the stream
EgressTimeout_IgnoresSource(e) ==
  /\ egr[e] = "subscribed"
  /\ queue[e] = <<>>
  /\ Unsubscribe(e)
  /\ UNCHANGED <<queue, received>>
  /\ egr' = [egr EXCEPT ![e] = "ended"]
  /\ UNCHANGED <<Outside, ing>>

\* lines 101-108: 5 s without a frame; the stream ends if no source is
\* connected, and the finally clause unsubscribes
EgressTimeout(e) ==
  /\ egr[e] = "subscribed"
  /\ queue[e] = <<>>
  /\ IF connected_source
       THEN UNCHANGED <<relayVars, observedVars, egr>>
       ELSE /\ Unsubscribe(e)
            /\ UNCHANGED <<queue, received>>
            /\ egr' = [egr EXCEPT ![e] = "ended"]
  /\ UNCHANGED <<Outside, ing>>

\* EgressClose without the finally clause of lines 107-108
EgressClose_KeepsChannel(e) ==
  /\ egr[e] = "subscribed"
  /\ egr' = [egr EXCEPT ![e] = "closed"]
  /\ UNCHANGED <<Outside, ing, relayVars, observedVars>>

\* lines 107-108: the consumer went away; the generator is closed and its
\* finally clause unsubscribes
EgressClose(e) ==
  /\ egr[e] = "subscribed"
  /\ Unsubscribe(e)
  /\ queue' = [queue EXCEPT ![e] = <<>>]
  /\ received' = [received EXCEPT ![e] = 0]
  /\ egr' = [egr EXCEPT ![e] = "closed"]
  /\ UNCHANGED <<Outside, ing>>

\* snapshot.jpg, lines 130-144: 503 when there is no frame
StreamSnapshot == IF GetLatestFrame = NoFrame THEN 503 ELSE 200

ServerNext ==
  \/ \E h \in Ingress : IngressOpen(h)
  \/ \E h \in Ingress : IngressConnect(h)
  \/ \E h \in Ingress : IngressReceive(h)
  \/ \E h \in Ingress : IngressDisconnect(h)
  \/ \E e \in Egress : EgressRequest(e)
  \/ \E e \in Egress : EgressSubscribe(e)
  \/ \E e \in Egress : EgressYield(e)
  \/ \E e \in Egress : EgressTimeout(e)
  \/ \E e \in Egress : EgressClose(e)

(***************************************************************************)
(* The Pi's stream pusher (raspberry/stream/websocket_pusher.py), one per  *)
(* Pi, each driving the ingress handler of the same name.  The pusher's    *)
(* loop runs on its own thread; stop() is called from the main thread.     *)
(***************************************************************************)
\* __init__, lines 43-46, then start(), lines 71-73: the thread is about to
\* test `while self._running`
PusherNew(secret_ok) ==
  [pc |-> "check", running |-> TRUE, connected |-> FALSE,
   secret_ok |-> secret_ok,  \* self.secret is the server's secret
   slept |-> 0]              \* the delay of the last asyncio.sleep of line 112

\* no pusher was started
PusherOff ==
  pusher = [p \in Ingress |->
              [pc |-> "off", running |-> FALSE, connected |-> FALSE,
               secret_ok |-> FALSE, slept |-> 0]]

\* what a pusher's step leaves alone
PusherFrame == <<engineVars, lockVars, detVars, startVars, camVars,
                 builtVars, mainVars, egr>>

\* line 100: `while self._running:`
PushLoopCheck(p) ==
  /\ pusher[p].pc = "check"
  /\ pusher' = [pusher EXCEPT ![p].pc = IF pusher[p].running THEN "connect"
                                        ELSE "exited"]
  /\ UNCHANGED <<PusherFrame, relayVars, observedVars, ing>>

\* lines 116-126 and stream.py lines 32-37: websockets.connect; the
\* handshake fails when the server is unreachable or closes with 4001
PushConnect(p) ==
  /\ pusher[p].pc = "connect"
  /\ ing[p].pc = "closed"
  /\ \E reachable \in BOOLEAN :
       IF reachable /\ pusher[p].secret_ok
         THEN /\ ing' = [ing EXCEPT ![p] = [pc |-> "accepted", code |-> 0]]
              /\ pusher' = [pusher EXCEPT ![p].pc = "pushing",
                                          ![p].connected = TRUE]
         ELSE /\ ing' = [ing EXCEPT ![p] =
                           IF reachable
                             THEN [pc |-> "closed",
                                   code |-> CloseInvalidSecret]
                             ELSE ing[p]]
              /\ pusher' = [pusher EXCEPT ![p].pc = "dropped"]
  /\ UNCHANGED <<PusherFrame, relayVars, observedVars>>

\* lines 131-158 and stream.py lines 50-55: a frame is sent; the holder of
\* the slot has it pushed, a pusher whose connection the server closed gets
\* ConnectionClosed (lines 160-161)
PushSend(p) ==
  /\ pusher[p].pc = "pushing"
  /\ pusher[p].running
  /\ IF ing[p].pc = "streaming"
       THEN /\ pushed < MaxReceived
            /\ PushFrame
            /\ UNCHANGED pusher
       ELSE /\ ing[p].pc = "closed"
            /\ pusher' = [pusher EXCEPT ![p].pc = "dropped"]
            /\ UNCHANGED <<relayVars, observedVars>>
  /\ UNCHANGED <<PusherFrame, ing>>

\* line 131 finds _running false: the `async with` closes the connection
\* and the server's handler ends (stream.py lines 57-62)
PushLeave(p) ==
  /\ pusher[p].pc = "pushing"
  /\ ~pusher[p].running
  /\ IF ing[p].pc = "streaming"
       THEN /\ DisconnectSource(p)
            /\ ing' = [ing EXCEPT ![p] = [pc |-> "closed", code |-> 0]]
       ELSE /\ ing[p].pc = "closed"
            /\ UNCHANGED <<relayVars, observedVars, ing>>
  /\ pusher' = [pusher EXCEPT ![p].pc = "dropped"]
  /\ UNCHANGED PusherFrame

\* lines 103-112: the exception is caught, _connected reset, and the loop
\* sleeps reconnect_delay if the pusher is still running
PushDropped(p) ==
  /\ pusher[p].pc = "dropped"
  /\ pusher' = [pusher EXCEPT ![p].connected = FALSE,
                              ![p].pc = IF pusher[p].running THEN "sleeping"
                                        ELSE "check",
                              ![p].slept = IF pusher[p].running
                                             THEN ReconnectDelay ELSE 0]
  /\ UNCHANGED <<PusherFrame, relayVars, observedVars, ing>>

\* line 112: the sleep is over
PushWake(p) ==
  /\ pusher[p].pc = "sleeping"
  /\ pusher' = [pusher EXCEPT ![p].pc = "check"]
  /\ UNCHANGED <<PusherFrame, relayVars, observedVars, ing>>

\* stop(), line 79, on the main thread
PushStop(p) ==
  /\ pusher[p].pc # "off"
  /\ pusher[p].running
  /\ pusher' = [pusher EXCEPT ![p].running = FALSE]
  /\ UNCHANGED <<PusherFrame, relayVars, observedVars, ing>>

\* the network drops the connection of the slot's holder: the server's
\* receive raises and its finally clause releases the slot
ConnectionLost(p) ==
  /\ pusher[p].pc = "pushing"
  /\ ing[p].pc = "streaming"
  /\ DisconnectSource(p)
  /\ ing' = [ing EXCEPT ![p] = [pc |-> "closed", code |-> 0]]
  /\ UNCHANGED <<PusherFrame, pusher>>

PusherNext ==
  \/ \E p \in Ingress : PushLoopCheck(p)
  \/ \E p \in Ingress : PushConnect(p)
  \/ \E p \in Ingress : IngressConnect(p)
  \/ \E p \in Ingress : PushSend(p)
  \/ \E p \in Ingress : PushLeave(p)
  \/ \E p \in Ingress : PushDropped(p)
  \/ \E p \in Ingress : PushWake(p)
  \/ \E p \in Ingress : PushStop(p)
  \/ \E p \in Ingress : ConnectionLost(p)

(***************************************************************************)
(* main() and the run loop (src/raspberry/main.py, lines 312-388).  The    *)
(* main thread walks through main(); a SIGINT or SIGTERM runs              *)
(* signal_handler on the main thread between two of its steps, and stop()  *)
(* is a method another thread may call on the system at any time.          *)
(***************************************************************************)
\* main(), lines 378-379: the handlers are registered, the system is about
\* to be built (line 382); __init__, line 48: _running = False
MainNew ==
  [pc |-> "new", running |-> FALSE,
   stopped |-> FALSE,   \* observation: stop() was called
   ticks |-> 0,         \* observation: calls of _process_frame by the loop
   cleanups |-> 0,      \* observation: calls of cleanup()
   signals |-> 0]       \* observation: signals delivered

\* main() is not being looked at
MainOff == main = [MainNew EXCEPT !.pc = "off"]

\* others: what a step of main() leaves alone
MainFrame == <<engineVars, serverVars, lockVars, detVars, startVars,
               camVars, pusherVars>>

\* the positions inside the try block of lines 384-386
InTry == {"initializing", "starting", "test", "tick", "sleep", "recover",
          "leaving"}

\* line 388: the finally clause calls cleanup()
EnterCleanup(m) ==
  [m EXCEPT !.pc = "cleaning", !.cleanups = m.cleanups + 1]

\* lines 382-385: the system is built, the try block is entered and
\* initialize() is called
MainConstruct ==
  /\ main.pc = "new"
  /\ main' = [main EXCEPT !.pc = "initializing"]
  /\ UNCHANGED MainFrame

\* line 385: initialize() returns ok; line 386 calls run() when it is True,
\* otherwise the try block ends
MainInitialized(ok) ==
  /\ main.pc = "initializing"
  /\ main' = IF ok THEN [main EXCEPT !.pc = "starting"]
                   ELSE EnterCleanup(main)
  /\ UNCHANGED MainFrame

\* run(), line 314: `self._running = True`, then the banner of lines 316-346
RunStart ==
  /\ main.pc = "starting"
  /\ main' = [main EXCEPT !.pc = "test", !.running = TRUE]
  /\ UNCHANGED MainFrame

\* line 348: `while self._running:`; line 350 starts a tick
LoopTest ==
  /\ main.pc = "test"
  /\ main.running => main.ticks < MaxTicks
  /\ main' = IF main.running
               THEN [main EXCEPT !.pc = "tick", !.ticks = main.ticks + 1]
               ELSE [main EXCEPT !.pc = "leaving"]
  /\ UNCHANGED MainFrame

\* line 350: _process_frame() returns; line 351 sleeps
TickReturns ==
  /\ main.pc = "tick"
  /\ main' = [main EXCEPT !.pc = "sleep"]
  /\ UNCHANGED MainFrame

\* lines 356-360: _process_frame() raises an Exception; the handler prints
\* it and sleeps one second
TickRaises ==
  /\ main.pc = "tick"
  /\ main' = [main EXCEPT !.pc = "recover"]
  /\ UNCHANGED MainFrame

\* line 351 or line 360: the sleep is over, back to the loop's test
SleepDone ==
  /\ main.pc \in {"sleep", "recover"}
  /\ main' = [main EXCEPT !.pc = "test"]
  /\ UNCHANGED MainFrame

\* lines 353-355: a KeyboardInterrupt raised inside the try of line 349
\* breaks the loop
KeyboardInterruptCaught ==
  /\ main.pc \in {"tick", "sleep"}
  /\ main' = [main EXCEPT !.pc = "leaving"]
  /\ UNCHANGED MainFrame

\* line 362: `self._running = False`, run() returns; line 388
RunLeave ==
  /\ main.pc = "leaving"
  /\ main' = EnterCleanup([main EXCEPT !.running = FALSE])
  /\ UNCHANGED MainFrame

\* cleanup(), lines 153-176, returns and main() ends
CleanupReturns ==
  /\ main.pc = "cleaning"
  /\ main' = [main EXCEPT !.pc = "exited"]
  /\ UNCHANGED MainFrame

\* signal_handler, lines 369-372: sys.exit(0) raises SystemExit on the main
\* thread wherever it is.  Inside the try block the finally clause runs
\* (`except Exception` does not catch SystemExit); before the try block and
\* inside cleanup() nothing catches it and main() ends.
SignalHandler ==
  /\ main.pc \notin {"off", "exited"}
  /\ main.signals < MaxSignals
  /\ main' = IF main.pc \in InTry
               THEN EnterCleanup([main EXCEPT !.signals = main.signals + 1])
               ELSE [main EXCEPT !.pc = "exited",
                                 !.signals = main.signals + 1]
  /\ UNCHANGED MainFrame

\* stop(), lines 364-366, called by another thread on the built system
MainStop ==
  /\ main.pc \notin {"off", "new", "exited"}
  /\ main' = [main EXCEPT !.running = FALSE, !.stopped = TRUE]
  /\ UNCHANGED MainFrame

MainNext ==
  \/ MainConstruct
  \/ \E ok \in BOOLEAN : MainInitialized(ok)
  \/ RunStart
  \/ LoopTest
  \/ TickReturns
  \/ TickRaises
  \/ SleepDone
  \/ KeyboardInterruptCaught
  \/ RunLeave
  \/ CleanupReturns
  \/ SignalHandler
  \/ MainStop

(***************************************************************************)
(* Specifications                                                          *)
(***************************************************************************)
\* config.py's defaults; the engine does not run in the server's
\* specifications
DefaultConfig ==
  [ detection_enabled |-> TRUE,
    cooldown_seconds |-> DefaultCooldownSeconds,
    countdown_seconds |-> DefaultCountdownSeconds,
    use_full_frame |-> TRUE,
    pir_enabled |-> FALSE,
    require_pir_for_capture |-> FALSE,
    led |-> "single" ]

EngineOff == EngineInit /\ cfg = DefaultConfig /\ pir_sensor = FALSE

\* the Pi after initialize() returned True; the server is not involved
PiInit ==
  EngineInit /\ RelayInit /\ HandlersInit /\ DetectorOff /\ StartupOff
  /\ CameraNew /\ PusherOff /\ MainOff

\* the server after import: the relay singleton, no connection; the Pi is
\* not involved
ServerInit ==
  EngineOff /\ RelayInit /\ HandlersInit /\ DetectorOff /\ StartupOff
  /\ CameraNew /\ PusherOff /\ MainOff

\* StreamRelay(max_frames=SmallMaxFrames); no connection, no Pi
ShortRelayInit ==
  /\ EngineOff /\ RelayNew(SmallMaxFrames) /\ HandlersInit
  /\ DetectorOff /\ StartupOff /\ CameraNew /\ PusherOff /\ MainOff

\* a detector, initialised, before its detect() is called on a frame
DetectorInit ==
  /\ EngineOff /\ RelayInit /\ HandlersInit /\ StartupOff /\ CameraNew
  /\ PusherOff /\ MainOff
  /\ det_in \in DetectInputs
  /\ det_out = <<>>
  /\ det_pc = "call"

\* AIArtCapture after __init__, before initialize(); the environment is any
\* of StartInputs
StartupInit ==
  /\ EngineOff /\ RelayInit /\ HandlersInit /\ DetectorOff /\ CameraNew
  /\ PusherOff /\ MainOff
  /\ start_in \in StartInputs
  /\ app = NewApp
  /\ start_pc = "new"
  /\ called = None

EngineSpec == PiInit /\ [][EngineNext]_vars

RelaySpec == ServerInit /\ [][RelayNext]_vars

LockSpec == ServerInit /\ [][LockNext]_vars

DetectorSpec == DetectorInit /\ [][DetectorNext]_vars

StartupSpec == StartupInit /\ [][StartupNext]_vars

\* the camera source after construction; nothing else runs
CameraInit ==
  /\ EngineOff /\ RelayInit /\ HandlersInit /\ DetectorOff /\ StartupOff
  /\ CameraNew /\ PusherOff /\ MainOff

CameraSpec == CameraInit /\ [][CameraNext]_vars

\* a detector about to return a box for a frame
BoxInit ==
  /\ EngineOff /\ RelayInit /\ HandlersInit /\ StartupOff /\ CameraNew
  /\ PusherOff /\ MainOff
  /\ det_in \in BoxInputs
  /\ det_out = <<>>
  /\ det_pc = "call"

BoxSpec == BoxInit /\ [][BoxNext]_vars

\* the Pi process at the start of main(); nothing else is looked at
MainInit ==
  /\ EngineOff /\ RelayInit /\ HandlersInit /\ DetectorOff /\ StartupOff
  /\ CameraNew /\ PusherOff
  /\ main = MainNew

MainSpec == MainInit /\ [][MainNext]_vars

\* the server after import and the pushers after start()
PusherInit ==
  /\ EngineOff /\ RelayInit /\ HandlersInit /\ DetectorOff /\ StartupOff
  /\ CameraNew /\ MainOff
  /\ pusher \in [Ingress -> {PusherNew(ok) : ok \in BOOLEAN}]

PusherSpec == PusherInit /\ [][PusherNext]_vars

\* every thread keeps running, the server handles an accepted connection,
\* the camera's cache keeps giving the pusher a frame to send, and a
\* pusher that keeps trying reaches the server
PusherFairSpec ==
  /\ PusherSpec
  /\ \A p \in Ingress :
       /\ WF_vars(PushLoopCheck(p))
       /\ WF_vars(PushConnect(p))
       /\ SF_vars(PushConnect(p) /\ pusher'[p].pc = "pushing")
       /\ WF_vars(IngressConnect(p))
       /\ WF_vars(PushSend(p))
       /\ WF_vars(PushLeave(p))
       /\ WF_vars(PushDropped(p))
       /\ WF_vars(PushWake(p))

\* a relay built with a short history, its methods called in any order
BufferSpec == ShortRelayInit /\ [][RelayNext]_vars

ServerSpec == ServerInit /\ [][ServerNext]_vars

\* the event loop runs a ready generator: a consumer that keeps reading
\* gets the next queued frame, and the timer of asyncio.wait_for fires when
\* the queue stays empty
ServerFairSpec ==
  /\ ServerSpec
  /\ \A e \in Egress : WF_vars(EgressYield(e))
  /\ \A e \in Egress : WF_vars(EgressTimeout(e))

\* the same for the reader of a queue obtained from subscribe()
RelayFairSpec ==
  RelaySpec /\ \A q \in Egress : WF_vars(ApiQueueGetOf(q))

(***************************************************************************)
(* Properties of the capture decision engine                               *)
(***************************************************************************)
\* the tick whose record is in `tick` has gone past the PIR gather step
PastGather == pc \notin {"loop", "gather", "gather_clear"}

\* the tick read the PIR flag and an accepted edge had reached the engine
\* since the previous read
TickSawEdge == tick.gathered /\ tick.edge

\* what "the tick did nothing" means for C1
NoCaptureNoUpload ==
  /\ tick.captures = 0
  /\ tick.uploads = 0
  /\ last_capture_time = tick.start_lct

\* C1 as stated: whenever require_pir_for_capture is true, in every
\* configuration and start-up outcome, a tick without an accepted PIR edge
\* since the previous check captures nothing, uploads nothing and leaves
\* last_capture_time unchanged.
C1_GateWheneverRequired ==
  (cfg.require_pir_for_capture /\ PastGather /\ ~TickSawEdge)
    => NoCaptureNoUpload

\* C1 amended: the same, for the start-ups in which the PIR sensor is
\* enabled and was initialised (self.pir_sensor is set).
C1_GateWhenSensorActive ==
  (cfg.require_pir_for_capture /\ cfg.pir_enabled /\ pir_sensor
     /\ PastGather /\ ~TickSawEdge)
    => NoCaptureNoUpload

\* a tick of a start-up with an active, required PIR sensor was stopped at
\* the gate because no edge had arrived
C1_Witness ==
  /\ cfg.require_pir_for_capture /\ cfg.pir_enabled /\ pir_sensor
  /\ pc = "sleep"
  /\ tick.gathered /\ ~tick.edge
  /\ tick.captures = 0

\* C2: last_capture_time changes only in the step in which the upload call
\* returns success, every change strictly increases it, and after a tick
\* whose upload did not succeed (any abort) it has the value it had when the
\* tick began.
C2_Step ==
  /\ (last_capture_time' # last_capture_time
        => /\ pc = "upload"
           /\ tick'.response = "success"
           /\ last_capture_time' > last_capture_time)
  /\ (tick'.response # "success" => last_capture_time' = tick'.start_lct)

C2_AdvancesOnlyOnSuccess == [][C2_Step]_vars

\* a second successful upload has just moved last_capture_time forward
C2_Witness ==
  /\ tick.response = "success"
  /\ prev_capture_time > 0
  /\ last_capture_time > prev_capture_time

\* C3: two consecutive successful captures are at least cooldown_seconds
\* apart, whatever the detection mode and the countdown length.
C3_Cooldown ==
  prev_capture_time # 0
    => last_capture_time - prev_capture_time >= cfg.cooldown_seconds

\* two successful captures happened under a non-zero cooldown, with
\* detection enabled and a countdown
C3_Witness ==
  /\ prev_capture_time # 0
  /\ cfg.cooldown_seconds > 0
  /\ cfg.detection_enabled
  /\ tick.countdown_steps > 0
  /\ tick.response = "success"

\* every gate that precedes the upload step passed in the tick on record
AllGatesPassed ==
  /\ (cfg.pir_enabled /\ pir_sensor /\ cfg.require_pir_for_capture)
       => pir_triggered
  /\ frame # 0
  /\ processed = frame
  /\ cfg.detection_enabled
       => /\ detections > 0
          /\ tick.captures = 2
          /\ frame = 2
          /\ countdown_left = 0
          /\ tick.countdown_steps = CountdownCount
  /\ ~cfg.detection_enabled => tick.captures = 1
  /\ now - tick.start_lct >= cfg.cooldown_seconds
  /\ tick.encodes = 1
  /\ image_bytes

\* C4: a tick calls the upload client at most once, and it calls it only
\* if every gate before the upload step passed in that tick.
C4_AtMostOneUpload ==
  /\ tick.uploads \in {0, 1}
  /\ tick.uploads = 1 => AllGatesPassed

\* a tick under a required PIR sensor with detection went through every
\* gate and uploaded once
C4_Witness ==
  /\ tick.uploads = 1
  /\ cfg.detection_enabled
  /\ cfg.require_pir_for_capture /\ pir_sensor
  /\ cfg.cooldown_seconds > 0
  /\ prev_capture_time # 0

\* C11: the read-and-clear of the PIR flag is atomic with respect to the
\* callback: an accepted edge that reached the engine since the last read
\* of the flag is still pending, i.e. it is never wiped out by the clear of
\* line 204.
C11_NoLostEdge == edge_since_check => pir_motion_detected

\* the tick whose record is in `tick` has ended without an exception: the
\* run loop is in, or just after, the sleep of line 351
TickReturned == pc \in {"sleep", "loop"}

\* C14: with an active PIR sensor, pir_required true and an edge pending, a
\* tick whose detector returns an empty list ends right after the
\* detection: no countdown, no second capture, no encode, no upload,
\* last_capture_time unchanged; and the PIR flag was cleared, so it is true
\* at the end of the tick only if a new edge arrived after the read.
C14_EmptyDetectionAborts ==
  (pir_sensor /\ cfg.pir_enabled /\ cfg.require_pir_for_capture
     /\ pir_triggered /\ tick.detects = 1 /\ detections = 0)
    => /\ TickReturned
       /\ tick.countdown_steps = 0
       /\ tick.captures = 1
       /\ tick.encodes = 0
       /\ tick.uploads = 0
       /\ last_capture_time = tick.start_lct
       /\ pir_motion_detected => edge_since_check

\* a PIR-triggered tick ended on an empty detection and left the flag false
C14_Witness ==
  /\ pir_sensor /\ cfg.pir_enabled /\ cfg.require_pir_for_capture
  /\ pir_triggered /\ tick.detects = 1 /\ detections = 0
  /\ pc = "sleep"
  /\ ~pir_motion_detected

\* C15, the cooldown gate with detection disabled: the gate lets the tick
\* go on to the encode iff now - last_capture_time >= cooldown_seconds, and
\* otherwise ends it.
C15_Step ==
  (~cfg.detection_enabled /\ pc = "cooldown" /\ pc' # pc)
    => /\ pc' = IF now - last_capture_time >= cfg.cooldown_seconds
                  THEN "encode" ELSE "sleep"
       /\ UNCHANGED <<tick, last_capture_time>>

\* C15, the uploads with detection disabled: a tick that uploads acquired
\* one frame and began at least cooldown_seconds after the last successful
\* upload, and two successive successful uploads are at least
\* cooldown_seconds apart.
C15_Uploads ==
  ~cfg.detection_enabled
    => /\ tick.uploads >= 1
            => /\ tick.captures = 1
               /\ tick.encodes = 1
               /\ tick.start_lct = 0
                    \/ now - tick.start_lct >= cfg.cooldown_seconds
       /\ prev_capture_time # 0
            => last_capture_time - prev_capture_time >= cfg.cooldown_seconds

\* C15: the two parts together
C15_CooldownWithoutDetection == [][C15_Step]_vars /\ []C15_Uploads

\* detection disabled, cooldown 5 s: a tick less than 5 s after a successful
\* upload acquired a frame and was ended by the cooldown gate
C15_Witness ==
  /\ ~cfg.detection_enabled
  /\ cfg.cooldown_seconds = DefaultCooldownSeconds
  /\ pc = "sleep"
  /\ tick.captures = 1 /\ frame = 1
  /\ tick.encodes = 0
  /\ last_capture_time # 0
  /\ now - last_capture_time < cfg.cooldown_seconds

\* C16: the tick that follows a failed upload is not stopped by the
\* cooldown gate.
C16_Step ==
  (tick.prev = "failure" /\ pc = "cooldown" /\ pc' # pc) => pc' # "sleep"

\* C16: a failed upload leaves last_capture_time as it was, and the tick
\* after it passes the cooldown gate when it reaches it.
C16_RetryAfterFailure ==
  /\ [][C16_Step]_vars
  /\ [](tick.response = "failure" => last_capture_time = tick.start_lct)

\* cooldown 5 s: the tick right after a failed upload uploads again, less
\* than 5 s after start-up
C16_Witness ==
  /\ cfg.cooldown_seconds = DefaultCooldownSeconds
  /\ tick.prev = "failure"
  /\ tick.uploads = 1
  /\ now - Epoch < cfg.cooldown_seconds

\* C17: when encode_jpeg returns no bytes the tick ends there, without a
\* call of the upload client and with last_capture_time unchanged; the
\* upload client is only ever called after an encode that returned bytes.
C17_EncodeFailureEndsCycle ==
  /\ (tick.encodes >= 1 /\ ~image_bytes)
       => /\ TickReturned
          /\ tick.uploads = 0
          /\ last_capture_time = tick.start_lct
  /\ (pc = "upload" \/ tick.uploads >= 1)
       => (tick.encodes = 1 /\ image_bytes)

\* a tick ended on a failed encode
C17_Witness ==
  /\ tick.encodes = 1
  /\ ~image_bytes
  /\ pc = "sleep"
  /\ tick.uploads = 0

\* C18: with detection enabled, the second capture is made after the whole
\* countdown, the image encoded and uploaded is the second capture, never
\* the preview, and a second capture that returns None ends the tick with
\* no encode, no upload and last_capture_time unchanged.
C18_FinalFrameOnly ==
  cfg.detection_enabled
    => /\ tick.captures = 2 => tick.countdown_steps = CountdownCount
       /\ tick.encodes >= 1 => (tick.captures = 2 /\ processed = 2)
       /\ tick.uploads >= 1 => tick.uploaded = 2
       /\ (tick.captures = 2 /\ frame = 0)
            => /\ TickReturned
               /\ tick.encodes = 0
               /\ tick.uploads = 0
               /\ last_capture_time = tick.start_lct

\* a tick with detection uploaded its second capture
C18_Witness ==
  /\ cfg.detection_enabled
  /\ tick.captures = 2
  /\ tick.uploads = 1
  /\ tick.uploaded = 2

\* C19: with use_full_frame false and a first detection whose area ratio is
\* below min_bbox_area_ratio, the engine obtains the scaled box and the
\* tick goes on to crop, encode and upload: it does not end at line 276.
C19_SmallBoxContinues ==
  (cfg.detection_enabled /\ ~cfg.use_full_frame /\ tick.small_bbox)
    => (~tick.raised /\ pc # "except")

\* C20: an exception raised inside a tick is caught at the loop boundary;
\* the handler pauses ExceptionPause seconds and goes back to the loop
\* test with the running flag still true, and the loop then runs a tick.
C20_Step ==
  /\ (~tick.raised /\ tick'.raised) => (pc' = "except" /\ running')
  /\ (pc = "except" /\ pc' # pc)
       => /\ pc' = "loop"
          /\ now' = now + ExceptionPause
          /\ running /\ running'
  /\ (pc = "loop" /\ tick.raised /\ pc' # pc) => pc' = "gather"

C20_ExceptionStaysInLoop == [][C20_Step]_vars

\* a tick is running after the tick before it raised
C20_Witness ==
  /\ tick.prev = "raised"
  /\ tick.captures >= 1
  /\ running

\* the order of the steps of a tick: from each step, the steps that can
\* follow it ("sleep": the tick ended with a return, "except": it raised)
StepOrder ==
  [ gather |-> {"gather_clear", "capture", "sleep"},
    gather_clear |-> {"capture", "sleep"},
    capture |-> {"detect", "cooldown", "sleep"},
    detect |-> {"cooldown", "sleep"},
    cooldown |-> {"countdown", "encode", "sleep"},
    countdown |-> {"capture2", "except"},
    capture2 |-> {"select", "sleep"},
    select |-> {"encode", "except"},
    encode |-> {"upload", "sleep"},
    upload |-> {"sleep"} ]

\* the PIR gate does not stand in the way of the running tick
PirGatePassed ==
  (pir_sensor /\ cfg.pir_enabled /\ cfg.require_pir_for_capture)
    => pir_triggered

\* C25, the steps: a tick moves from step to step in the fixed order only;
\* once it has ended, nothing more is done for it.
C25_Step ==
  /\ (pc \in DOMAIN StepOrder /\ pc' # pc) => pc' \in StepOrder[pc]
  /\ pc = "sleep" => UNCHANGED <<tick, last_capture_time>>

\* C25, the states: what has been done when a step is about to run.  The
\* detection runs on a captured preview, after the PIR gate; the cooldown
\* gate is evaluated, with detection enabled, only after a non-empty
\* detection; the countdown is entered only after the PIR, capture,
\* detection and cooldown gates passed; the final capture follows the
\* countdown, the selection a successful final capture, the encode the
\* selection, the upload a successful encode; a failed step leaves the
\* later steps undone.
C25_Order ==
  /\ pc \in {"capture", "detect", "cooldown", "countdown", "capture2",
             "select", "encode", "upload"} => PirGatePassed
  /\ pc = "capture" => tick.captures = 0
  /\ pc = "detect"
       => (cfg.detection_enabled /\ tick.captures = 1 /\ frame = 1
           /\ tick.detects = 0)
  /\ pc = "cooldown"
       => /\ tick.captures = 1 /\ frame = 1
          /\ tick.countdown_steps = 0 /\ tick.encodes = 0
          /\ cfg.detection_enabled
               => (tick.detects = 1 /\ detections >= 1)
  /\ pc = "countdown"
       => /\ cfg.detection_enabled
          /\ tick.captures = 1 /\ frame = 1
          /\ tick.detects = 1 /\ detections >= 1
          /\ CanCapture(now, last_capture_time, cfg.cooldown_seconds)
  /\ pc = "capture2"
       => (tick.captures = 1 /\ tick.countdown_steps = CountdownCount)
  /\ pc = "select" => (tick.captures = 2 /\ frame = 2 /\ tick.encodes = 0)
  /\ pc = "encode" => (processed = frame /\ frame # 0 /\ tick.encodes = 0)
  /\ pc = "upload" => (tick.encodes = 1 /\ image_bytes /\ tick.uploads = 0)
  /\ (tick.captures = 1 /\ frame = 0)
       => (tick.detects = 0 /\ tick.encodes = 0 /\ tick.uploads = 0)
  /\ (tick.detects = 1 /\ detections = 0)
       => (tick.countdown_steps = 0 /\ tick.captures = 1
           /\ tick.encodes = 0)
  /\ tick.uploads <= tick.encodes /\ tick.encodes <= 1

C25_FixedOrder == [][C25_Step]_vars /\ []C25_Order

\* a PIR-triggered tick with detection went through every step, countdown
\* included, and uploaded
C25_Witness ==
  /\ pir_sensor /\ cfg.require_pir_for_capture /\ pir_triggered
  /\ cfg.detection_enabled
  /\ tick.detects = 1
  /\ tick.countdown_steps = DefaultCountdownSeconds
  /\ tick.captures = 2
  /\ tick.encodes = 1
  /\ tick.response = "success"

\* a step that is one iteration of the countdown loop
CountdownIteration == tick'.countdown_steps = tick.countdown_steps + 1

\* the countdown is left only for the final capture, all its iterations
\* done, or by an exception of an LED call
CountdownCompletes ==
  (pc = "countdown" /\ pc' # pc)
    => \/ pc' = "capture2" /\ countdown_left = 0
       \/ pc' = "except"

\* C26 as stated: whichever LED variant is configured, the countdown has
\* exactly countdown_seconds iterations, one per second, when
\* countdown_seconds > 0, and none when countdown_seconds = 0; it runs to
\* completion before the final capture.
C26_Step ==
  /\ CountdownIteration => now' = now + 1
  /\ CountdownCompletes

C26_AmendedStep ==
  /\ (CountdownIteration /\ cfg.led # "rgb") => now' = now + 1
  /\ CountdownCompletes

C27_DetectionDisabledPath ==
  ~cfg.detection_enabled
    => /\ pc \notin {"detect", "countdown", "capture2", "select"}
       /\ tick.detects = 0
       /\ tick.captures <= 1
       /\ tick.countdown_steps > 0 => cfg.countdown_seconds > 0
       /\ tick.countdown_steps = 0
       /\ pc \in {"encode", "upload"} \/ tick.encodes >= 1
            => (tick.captures = 1 /\ frame = 1 /\ processed = frame)
       /\ tick.uploads >= 1 => tick.uploaded = 1

\* detection disabled and a countdown of 3 s configured: a tick uploaded
\* its single capture without any countdown
C27_Witness ==
  /\ ~cfg.detection_enabled
  /\ cfg.countdown_seconds = DefaultCountdownSeconds
  /\ tick.captures = 1
  /\ tick.response = "success"
  /\ tick.uploaded = 1
  /\ tick.countdown_steps = 0

\* a step in which the adapter accepts an edge
EdgeAccepted == sensor_last_detection_time' # sensor_last_detection_time

\* C28: the adapter accepts an edge (pending flag set, the callback called
\* once) only when at least cooldown_time has passed since the last accepted
\* edge, so two accepted edges are at least cooldown_time apart; while the
\* cooldown runs an edge changes no adapter state and sets no flag; the callback
\* runs only for an accepted edge, once.
C28_Step ==
  /\ EdgeAccepted
       => /\ now - sensor_last_detection_time >= PirCooldownTime
          /\ sensor_last_detection_time' = now
          /\ sensor_last_detection_time'
               - sensor_last_detection_time >= PirCooldownTime
          /\ sensor_motion_detected'
          /\ irq_pc = "idle" /\ irq_pc' = "callback"
  /\ now - sensor_last_detection_time < PirCooldownTime
       => /\ UNCHANGED <<sensor_last_detection_time, sensor_motion_detected>>
          /\ irq_pc = "idle"
               => /\ UNCHANGED irq_pc
                  /\ pir_motion_detected' => pir_motion_detected
                  /\ edge_since_check' => edge_since_check
  /\ (irq_pc = "idle" /\ irq_pc' = "callback") => EdgeAccepted
  /\ (~edge_since_check /\ edge_since_check')
       => (irq_pc = "callback" /\ irq_pc' = "idle" /\ pir_motion_detected')

InGather == pc \in {"gather", "gather_clear"}

\* C29: with PIR enabled the engine's flag is false when the gather step
\* ends; only the clear of the gather step resets it and only the callback
\* sets it, so an edge seen by one tick is not seen by a later one and an
\* edge that arrives after the gather step stays pending, without touching
\* the running tick, until the next tick reads it and is triggered by it.
C29_Step ==
  /\ (InGather /\ ~InGather' /\ pir_sensor /\ cfg.pir_enabled)
       => ~pir_motion_detected'
  /\ (pir_motion_detected /\ ~pir_motion_detected') => pc = "gather_clear"
  /\ (~pir_motion_detected /\ pir_motion_detected')
       => /\ irq_pc = "callback"
          /\ UNCHANGED <<pc, tick, Locals, last_capture_time>>
  /\ (pc = "gather" /\ pc' # "gather" /\ pir_sensor /\ cfg.pir_enabled)
       => pir_triggered' = pir_motion_detected

\* a triggered tick was triggered by an edge delivered since the previous read
C29_EdgeNotReused == (tick.gathered /\ pir_triggered) => tick.edge

Initialized == start_pc \in {"run", "cleaned"}

\* the detector initialize() selects for the environment
Selected(in) ==
  IF in.use_mediapipe /\ in.has_mediapipe /\ in.mediapipe_init
    THEN "mediapipe_detector" ELSE "detector"

\* C30: the detector is selected in initialize() and never changes: when
\* detection is enabled and initialize() returned True exactly one of the
\* two detectors is set, the pose detector if it initialized and the HOG
\* detector otherwise; a tick calls that detector only; a failure of the pose
\* detector's or of the PIR sensor's initialization does not make
\* initialize() fail, it leaves the HOG detector or no PIR sensor.
C30_Selection ==
  /\ (Initialized /\ start_in.detection_enabled)
       => /\ app.detector # app.mediapipe_detector
          /\ app.use_mediapipe = app.mediapipe_detector
          /\ app.mediapipe_detector
               = (Selected(start_in) = "mediapipe_detector")
          /\ called \in {None, Selected(start_in)}
  /\ (Initialized /\ ~start_in.detection_enabled)
       => (~app.detector /\ ~app.mediapipe_detector /\ called = None)
  /\ (start_in.raises = "none" /\ start_pc # "new") => Initialized
  /\ Initialized
       => app.pir_sensor = (start_in.pir_enabled /\ start_in.pir_init)

C30_Step ==
  start_pc # "new"
    => UNCHANGED <<app.detector, app.mediapipe_detector, app.use_mediapipe>>

Holders == {h \in Ingress : ing[h].pc = "streaming"}

\* C5: under every interleaving of the ingress handlers at most one of
\* them holds the producer slot, and the relay records that one as its
\* source.
C5_SingleSource ==
  /\ Cardinality(Holders) <= 1
  /\ \A h \in Holders : connected_source /\ source_id = h

\* one handler holds the slot and the other one was turned away with 4002
C5_Witness ==
  \E h1, h2 \in Ingress :
    /\ h1 # h2
    /\ ing[h1].pc = "streaming"
    /\ ing[h2].pc = "closed"
    /\ ing[h2].code = CloseAnotherSource

\* C6: connect_source(id) returns success exactly when no source was
\* connected at the call; on success the relay records id, on failure (B
\* after A) the recorded source stays what it was.
C6_Step ==
  call'.op = "connect_source"
    => /\ call'.ret = (IF connected_source THEN "False" ELSE "True")
       /\ call'.ret = "True"
            => (connected_source' /\ source_id' = call'.arg)
       /\ call'.ret = "False"
            => (connected_source' /\ source_id' = source_id)

C6_ConnectIffFree == [][C6_Step]_vars

\* connect_source("pi2") has just failed while "pi1" is connected
C6_Witness ==
  /\ call.op = "connect_source"
  /\ call.arg = "pi2"
  /\ call.ret = "False"
  /\ connected_source
  /\ source_id = "pi1"

\* C7: disconnect_source(A) while the source is B, A # B, changes nothing
\* of the relay: B stays connected and the latest frame is kept.
C7_Step ==
  (/\ call'.op = "disconnect_source"
   /\ source_id # None
   /\ source_id # call'.arg)
    => UNCHANGED relayVars

C7_StaleDisconnect == [][C7_Step]_vars

\* disconnect_source("pi1") has just been called while "pi2" is the source
\* and a frame is cached
C7_Witness ==
  /\ call.op = "disconnect_source"
  /\ call.arg = "pi1"
  /\ source_id = "pi2"
  /\ connected_source
  /\ latest_frame # NoFrame

\* C8: in every reachable state of the server without a connected source
\* get_latest_frame returns none and the snapshot endpoint answers 503.
C8_NoStaleFrame ==
  ~connected_source => (GetLatestFrame = NoFrame /\ StreamSnapshot = 503)

\* a source pushed frames and went away
C8_Witness ==
  /\ ~connected_source
  /\ pushed > 0
  /\ call.op = "disconnect_source"

\* C9: no queue ever holds more than QueueMaxSize items, and a push that
\* finds a subscribed queue full drops exactly its oldest item and appends
\* the new frame at the tail.
C9_Step ==
  /\ \A q \in Egress : Len(queue'[q]) <= QueueMaxSize
  /\ call'.op = "push_frame"
       => \A q \in clients :
            IF Len(queue[q]) = QueueMaxSize
              THEN queue'[q] = Append(Tail(queue[q]), call'.frame)
              ELSE queue'[q] = Append(queue[q], call'.frame)

C9_BoundedQueues == [][C9_Step]_vars

\* a push has just found a subscribed queue full
C9_Witness ==
  /\ call.op = "push_frame"
  /\ call.full # {}
  /\ \A q \in call.full : Len(queue[q]) = QueueMaxSize

Last(q) == q[Len(q)]

\* the frame pushed last is the newest item of every subscribed queue that
\* holds anything, and every queue is in push order
C10_Newest ==
  \A q \in clients :
    /\ queue[q] # <<>> => Last(queue[q]) = pushed
    /\ \A i \in 1..(Len(queue[q]) - 1) : queue[q][i] < queue[q][i + 1]

\* C10: the frame pushed last is always the newest item of every
\* subscribed queue, no drop removes it before an older one, and a reader
\* that keeps reading and stays subscribed eventually has taken the most
\* recently pushed frame out of its queue.
C10_Delivery ==
  /\ []C10_Newest
  /\ \A q \in Egress :
       (q \in clients /\ queue[q] # <<>>)
         ~> (q \notin clients \/ (queue[q] = <<>> /\ received[q] = pushed))

\* a reader has caught up with the last frame after pushes overflowed
C10_Witness ==
  \E q \in clients :
    /\ pushed > QueueMaxSize
    /\ queue[q] = <<>>
    /\ received[q] = pushed

\* the relay's state: latest frame, source id and connected flag,
\* subscriber set, the subscribers' queues
RelayMutated ==
  \/ latest_frame' # latest_frame
  \/ source_id' # source_id
  \/ connected_source' # connected_source
  \/ clients' # clients
  \/ queue' # queue

\* C12: every step that mutates the relay's state (latest frame, source id,
\* connected flag, subscriber set, the fan-out into the queues) is taken by
\* a thread inside a `with self._lock:` block, and so is the read of
\* get_latest_frame.
C12_Step ==
  /\ RelayMutated => \E t \in Callers : lock = t /\ thr[t].pc = "locked"
  /\ (call' # call /\ call'.op = "get_latest_frame") => lock # None

C12_AllUnderLock == [][C12_Step]_vars

\* C13: while no source is connected and no frame was ever pushed (in
\* particular on a relay that never had a source), the snapshot reports
\* that there is no frame (503) and get_status reports source_connected
\* false, has_frame false and no frame age.
C13_EmptyRelay ==
  (pushed = 0 /\ ~connected_source)
    => /\ StreamSnapshot = 503
       /\ GetStatus.source_connected = FALSE
       /\ GetStatus.has_frame = FALSE
       /\ GetStatus.frame_age_seconds = None

\* the only thing that ever happened is an ingress attempt turned away for
\* its secret: no source was ever connected, nothing was pushed
C13_Witness ==
  /\ call = NoCall
  /\ pushed = 0
  /\ \E h \in Ingress : ing[h].code = CloseInvalidSecret
  /\ StreamSnapshot = 503
  /\ ~GetStatus.has_frame

\* a step in which the ingress handler h is turned away, for its secret
\* (4001) or because another source holds the slot (4002)
Rejected(h) ==
  /\ ing'[h] # ing[h]
  /\ ing'[h].code \in {CloseInvalidSecret, CloseAnotherSource}

\* C21, the steps: a rejection changes nothing of the relay (source flag and
\* id, latest frame, stamp, history, subscriber set, queues) and pushes
\* nothing; a frame is pushed only while the holder of the slot is in its
\* receive loop; the slot is cleared only by the handler that holds it,
\* when it leaves its receive loop.
C21_Step ==
  /\ \A h \in Ingress :
       Rejected(h) => /\ UNCHANGED <<relayVars, pushed, received>>
                      /\ ing'[h].pc = "closed"
  /\ pushed' # pushed
       => (source_id \in Ingress /\ ing[source_id].pc = "streaming")
  /\ (source_id \in Ingress /\ source_id' # source_id)
       => /\ ing[source_id].pc = "streaming"
          /\ ing'[source_id].pc = "closed"
          /\ ing'[source_id].code = 0

\* C21, the states: only the handler whose id is in the slot is in its
\* receive loop, so a rejected connection never pushes a frame.
C21_OnlyHolderStreams ==
  \A h \in Ingress : ing[h].pc = "streaming" => source_id = h

C21_RejectionMutatesNothing == [][C21_Step]_vars /\ []C21_OnlyHolderStreams

\* a second source was turned away with 4002 while the first one holds the
\* slot and its frame is the latest
C21_Witness ==
  \E h \in Ingress :
    /\ ing[h].code = CloseAnotherSource
    /\ source_id \in Ingress \ {h}
    /\ ing[source_id].pc = "streaming"
    /\ latest_frame # NoFrame

C22_OrderedByConfidence ==
  det_pc = "returned"
    => \A i, j \in 1..Len(det_out) :
         i < j => det_out[i].confidence >= det_out[j].confidence

\* C23: every box detect() returned has a confidence at or above
\* min_detection_confidence, whatever the backend did.
C23_AtLeastMinConfidence ==
  det_pc = "returned"
    => \A i \in 1..Len(det_out) :
         det_out[i].confidence >= det_in.min_confidence

\* C31: an egress generator leaves its loop only at a timeout (empty queue)
\* that finds no source connected, never at a timeout while a source is
\* connected; and once the source is gone every subscribed generator drains
\* its queue and ends, unless a source connects again.
C31_Step ==
  \A e \in Egress :
    (egr[e] # "ended" /\ egr'[e] = "ended")
      => /\ egr[e] = "subscribed"
         /\ queue[e] = <<>>
         /\ ~connected_source

C31_Ends ==
  \A e \in Egress :
    (egr[e] = "subscribed" /\ ~connected_source)
      ~> (egr[e] # "subscribed" \/ connected_source)

C31_StreamEndsWithoutSource == [][C31_Step]_vars /\ C31_Ends

\* a generator ended by the timeout after the source left, having received
\* a frame
C31_Witness ==
  \E e \in Egress :
    /\ egr[e] = "ended"
    /\ received[e] > 0
    /\ ~connected_source

\* the egress handlers whose generator is inside its loop
LiveStreams == {e \in Egress : egr[e] = "subscribed"}

\* C32: the registry holds exactly the channels of the live egress streams,
\* so the subscriber count is the number of live streams and is zero when
\* all of them have ended, by whichever exit; a handler that reaches
\* subscribe() can always run it, and gets its channel registered, with or
\* without a source.
C32_Registry ==
  /\ clients = LiveStreams
  /\ Cardinality(clients) = Cardinality(LiveStreams)
  /\ \A e \in Egress : egr[e] = "responding" => ENABLED EgressSubscribe(e)

C32_Step ==
  \A e \in Egress :
    /\ (egr[e] = "responding" /\ egr'[e] # "responding")
         => (egr'[e] = "subscribed" /\ e \in clients'
               /\ call'.ret = "queue")
    /\ (egr[e] = "subscribed" /\ egr'[e] # "subscribed")
         => e \notin clients'

C32_ChannelsRemoved == [][C32_Step]_vars /\ []C32_Registry

\* both streams have ended, one of them by the timeout, and the registry is
\* empty again
C32_Witness ==
  /\ clients = {}
  /\ call.op = "unsubscribe"
  /\ \E e \in Egress : egr[e] = "ended" /\ call.arg # e

\* a handler subscribed after the source had left
C32_SubscribedWithoutSource ==
  /\ call.op = "subscribe"
  /\ ~connected_source

\* the last n frames pushed, oldest first
LastPushed(n) == [i \in 1..n |-> pushed - n + i]

\* C33: when push_frame(f) has returned, f is the latest frame, the history
\* holds the last min(max_frames, number of pushes) frames in push order,
\* ending with f, and f is the newest item of every subscribed channel; in
\* every state the relay's own fields hold no frame older than those.
C33_PushStores ==
  /\ call.op = "push_frame"
       => /\ call.frame = pushed
          /\ latest_frame = pushed
          /\ frame_buffer # <<>>
          /\ frame_buffer[Len(frame_buffer)] = pushed
          /\ \A q \in clients :
               /\ queue[q] # <<>>
               /\ queue[q][Len(queue[q])] = pushed
  /\ frame_buffer = LastPushed(Min(max_frames, pushed))
  /\ latest_frame \in {NoFrame, pushed}

\* a push has just evicted the oldest frame of a full history, with a
\* channel subscribed
C33_Witness ==
  /\ call.op = "push_frame"
  /\ pushed > max_frames
  /\ Len(frame_buffer) = max_frames
  /\ clients # {}

\* the array get_latest_frame returns when the last store was of frame n
CacheOf(n) == IF n = 0 THEN NoArray ELSE Whole(n)

\* C34: the cache is None until the first successful capture and then the
\* whole frame of the capture stored last; get_latest_frame returns a copy
\* equal to the cache as it was when the call held the lock, never a part
\* of a frame; only the store of a successful capture, made under the lock,
\* changes the cache, so a failed capture and a capture while the camera is
\* not running leave it alone.
C34_Cache ==
  /\ cam_latest = CacheOf(cam_stored)
  /\ \A t \in CamThreads :
       /\ cam[t].pc \in {"get_copy", "get_release"}
            => (frame_lock = t /\ cam[t].seen = cam_stored)
       /\ (cam[t].pc = "idle" /\ cam[t].op = "get_latest_frame")
            => cam[t].out = CacheOf(cam[t].seen)

C34_Step ==
  cam_latest' # cam_latest
    => \E t \in CamThreads :
         /\ cam[t].pc = "capture_store"
         /\ frame_lock = t
         /\ cam_latest' = cam[t].frame

C34_LatestFrameCache == [][C34_Step]_vars /\ []C34_Cache

\* a reader got the frame stored last although the other thread's last
\* capture failed
C34_Witness ==
  \E t, u \in CamThreads :
    /\ cam[t].pc = "idle" /\ cam[t].op = "get_latest_frame"
    /\ cam_stored > 0
    /\ cam[t].out = Whole(cam_stored)
    /\ cam[u].pc = "idle" /\ cam[u].op = "capture"
    /\ cam[u].out = NoArray

\* C35: after any sequence of calls of the relay's methods the connected
\* flag is true exactly when the source id is not None.
C35_FlagAndIdAgree == connected_source <=> (source_id # None)

\* a source connected again after the previous one disconnected and a
\* stale disconnect was ignored
C35_Witness ==
  /\ connected_source
  /\ call.op = "disconnect_source"
  /\ call.arg # source_id
  /\ pushed > 0

\* C36: the producer slot is taken only while the ingress handler whose id
\* it records is in its receive loop; a handler that leaves its receive
\* loop, by a disconnect or by an error, calls disconnect_source with its
\* own id and leaves the slot free.
C36_SlotHeldByLiveHandler ==
  connected_source
    => (source_id \in Ingress /\ ing[source_id].pc = "streaming")

C36_Step ==
  \A h \in Ingress :
    (ing[h].pc = "streaming" /\ ing'[h].pc # "streaming")
      => /\ call'.op = "disconnect_source"
         /\ call'.arg = h
         /\ ~connected_source'
         /\ source_id' = None

C36_SlotNeverLeaked == [][C36_Step]_vars /\ []C36_SlotHeldByLiveHandler

\* a handler took the slot after an earlier holder had pushed frames and
\* ended
C36_Witness ==
  /\ connected_source
  /\ call.op = "connect_source"
  /\ call.ret = "True"
  /\ pushed > 0

\* the pusher p starts a connection attempt (websockets.connect is called)
Attempt(p) == pusher[p].pc = "connect" /\ pusher'[p].pc # "connect"

\* the retry part of C37: a pusher whose connection was rejected or dropped
\* sleeps reconnect_delay and tests its loop again while it is running, and
\* its loop ends only when it is not running
C37_RetryStep ==
  \A p \in Ingress :
    /\ (pusher[p].pc = "dropped" /\ pusher[p].running
          /\ pusher'[p].pc # "dropped")
         => (pusher'[p].pc = "sleeping" /\ pusher'[p].slept = ReconnectDelay)
    /\ (pusher[p].pc # "exited" /\ pusher'[p].pc = "exited")
         => ~pusher[p].running

C37_Retries == [][C37_RetryStep]_vars

\* the liveness part of C37: while a pusher with the right secret is
\* running and no source is connected, a source gets connected
C37_WaitingPusherConnects ==
  \A p \in Ingress :
    (pusher[p].running /\ pusher[p].secret_ok /\ ~connected_source)
      ~> (connected_source \/ ~pusher[p].running)

\* C37: a rejected or dropped pusher retries every reconnect_delay while it
\* is running, and once stop() has set _running to false the pusher starts
\* no connection attempt.
C37_Step ==
  /\ C37_RetryStep
  /\ \A p \in Ingress : Attempt(p) => pusher[p].running

C37_NoAttemptAfterStop == [][C37_Step]_vars

\* a pusher that was turned away while the other held the slot is the
\* connected source after a retry
C37_RetryConnects ==
  \E p \in Ingress :
    /\ source_id = p
    /\ pusher[p].slept = ReconnectDelay
    /\ pusher[p].pc = "pushing"

\* C38: what a subscriber takes out of its queue is a subsequence of the
\* pushed frames in push order.  A queue changes only by a get, which takes
\* its head, a frame newer than the one taken before, or by a push, which
\* puts the new frame at its tail and removes the head only if the queue
\* was full; a frame pushed before the subscription never enters the queue;
\* the queue holds consecutive frames, all newer than the one taken last.
C38_Step ==
  \A q \in clients \cap clients' :
    /\ received'[q] # received[q]
         => /\ queue[q] # <<>>
            /\ received'[q] = Head(queue[q])
            /\ received'[q] > received[q]
            /\ queue'[q] = Tail(queue[q])
    /\ (received'[q] = received[q] /\ queue'[q] # queue[q])
         => /\ pushed' = pushed + 1
            /\ \/ queue'[q] = Append(queue[q], pushed')
               \/ /\ Len(queue[q]) = QueueMaxSize
                  /\ queue'[q] = Append(Tail(queue[q]), pushed')
    /\ pushed' # pushed => queue'[q] # queue[q]

C38_Consecutive ==
  \A q \in clients :
    /\ \A i \in 1..Len(queue[q]) : queue[q][i] = pushed - Len(queue[q]) + i
    /\ queue[q] # <<>> => received[q] < Head(queue[q])

C38_SubsequenceInOrder == [][C38_Step]_vars /\ []C38_Consecutive

\* a reader took the head of a full queue after more pushes than the queue
\* holds: a frame is missing from what it has read, dropped as oldest or
\* pushed before it subscribed
C38_Witness ==
  \E q \in clients :
    /\ call.op = "get" /\ call.arg = q
    /\ pushed > QueueMaxSize
    /\ Len(queue[q]) = QueueMaxSize - 1
    /\ received[q] = pushed - QueueMaxSize + 1

\* C39: once stop() has set the running flag to false the loop starts no
\* further tick: a test of the flag that follows stop() ends the loop.
C39_Step == (main.stopped /\ main.pc = "test") => main'.pc # "tick"

C39_NoTickAfterStop == [][C39_Step]_vars

\* C39, second part: when main() has ended, cleanup() was called exactly
\* once, whichever way main() ended
C39_CleanupOnce == main.pc = "exited" => main.cleanups = 1

\* main() ended after stop() was called during a tick of the loop
C39_StoppedAndCleaned ==
  /\ main.pc = "exited" /\ main.stopped /\ main.ticks > 0
  /\ main.signals = 0 /\ main.cleanups = 1

\* C40: every box a detector returns lies inside the frame it was computed
\* from: x >= 0, y >= 0, width >= 0, height >= 0, x + width <= frame width
\* and y + height <= frame height.
InsideFrame(b, f) ==
  /\ b.x >= 0 /\ b.y >= 0 /\ b.width >= 0 /\ b.height >= 0
  /\ b.x + b.width <= f.w
  /\ b.y + b.height <= f.h

C40_BoxInsideFrame ==
  det_pc \in {"returned", "cropped"} => InsideFrame(det_out[1], FrameShape)

\* C40 for the pose variant and the mock box alone
C40_PoseBoxInsideFrame ==
  (det_pc \in {"returned", "cropped"}
     /\ ~(det_in.detector = "hog" /\ det_in.backend = "normal"))
    => InsideFrame(det_out[1], FrameShape)

\* what crop_bbox cuts out lies inside the frame, whatever the box
C40_CropInsideFrame ==
  det_pc = "cropped"
    => /\ 0 <= det_out[2].x1 /\ det_out[2].x2 <= FrameShape.w
       /\ 0 <= det_out[2].y1 /\ det_out[2].y2 <= FrameShape.h

\* the HOG variant returned a box for a rectangle that touches the right
\* edge and is wide enough to be padded
C40_PaddedAtEdge ==
  /\ det_pc = "returned"
  /\ det_in.detector = "hog" /\ det_in.backend = "normal"
  /\ det_in.rect.x + det_in.rect.width = FrameWidth
  /\ det_in.rect.width >= 5

====
